---- MODULE Spec2Model ----
(***************************************************************************)
(* A model of stitchee (nasa/stitchee): the coordinate-attribute path      *)
(* codec, the group flattening / regrouping pipeline, the emptiness        *)
(* classifier and the concatenate() orchestrator.                          *)
(*                                                                         *)
(* Strings are sequences of one-character strings, so that Python's        *)
(* str.split, str.replace, str.join and re.findall are computed on the     *)
(* characters, as the code computes them.                                  *)
(***************************************************************************)
EXTENDS Integers, Sequences, FiniteSets, TLC

VARIABLES
    \* ---- coordinate-attribute codec (concatenator/attribute_handling.py)
    attribute_string,   \* the "coordinates" attribute given to the codec
    flat_result,        \* what _flatten_coordinate_attribute returned / raised
    regroup_result,     \* what regroup_coordinate_attribute returned / raised
    coord_pc,           \* "start" | "flattened" | "regrouped"
    coordinates_of,     \* the variable that has the attribute, and the variables it lists
    \* ---- flattening and regrouping (concatenator/dataset_and_group_handling.py)
    nc_dataset,         \* the grouped input: groups, variables, dimensions
    flat_dataset,       \* what flatten_grouped_dataset left in the root group
    output_dataset,     \* what regroup_flattened_dataset wrote, and its error
    group_pc,           \* "grouped" | "flat" | "regrouped"
    \* ---- emptiness classifier (_is_file_empty of the two file_ops.py)
    parent_group,       \* the group tree given to _is_file_empty
    is_empty_stitchee,  \* result of stitchee/file_ops.py, <<>> before the call
    is_empty_concatenator,  \* result of concatenator/file_ops.py
    \* ---- concatenate() of stitchee/concatenate.py and the file filters
    fs,                     \* the file system: path -> what is stored there
    fs_at_call,             \* the file system when concatenate() was called
    path_suffix,            \* path -> its file name extension
    files_to_concat,        \* argument: the input paths
    output_file,            \* argument: the output path
    concat_method,          \* argument
    concat_dim,             \* argument, "" when not given
    sorting_variable,       \* argument, "" when not given
    overwrite_output_file,  \* argument
    history_to_append,      \* argument, <<>> for None, else <<history>>
    concat_result,          \* outcome of concatenate(), <<>> before the call
    workable_stitchee,      \* outcome of stitchee/file_ops.py validate_workable_files
    workable_concatenator,  \* outcome of concatenator/file_ops.py validate_workable_files
    path_check,             \* outcome of one of the path validators, and which
    exit_status,            \* of the command line: <<>> before it ran, else <<status>>
    input_file,             \* stitchee(): the input file as it is on disk
    input_file_at_start,    \* the input file before the first run of stitchee()
    stitchee_runs,          \* what each run of stitchee() read and wrote
    \* ---- remove_duplicate_dims (concatenator/dimension_cleanup.py)
    cleanup_input,          \* the flat dataset given to remove_duplicate_dims
    cleanup_result          \* what it returned (the dataset) or raised

vars == <<attribute_string, flat_result, regroup_result, coord_pc, coordinates_of,
          nc_dataset, flat_dataset, output_dataset, group_pc,
          parent_group, is_empty_stitchee, is_empty_concatenator,
          fs, fs_at_call, path_suffix, files_to_concat, output_file, concat_method,
          concat_dim, sorting_variable, overwrite_output_file,
          history_to_append, concat_result,
          workable_stitchee, workable_concatenator, path_check, exit_status,
          input_file, input_file_at_start, stitchee_runs,
          cleanup_input, cleanup_result>>

concatVars == <<fs, fs_at_call, path_suffix, files_to_concat, output_file, concat_method,
                concat_dim, sorting_variable, overwrite_output_file,
                history_to_append, concat_result, workable_stitchee,
                workable_concatenator, path_check, exit_status>>

emptyVars == <<parent_group, is_empty_stitchee, is_empty_concatenator>>

groupVars == <<nc_dataset, flat_dataset, output_dataset, group_pc,
               input_file, input_file_at_start, stitchee_runs,
               cleanup_input, cleanup_result>>

coordVars == <<attribute_string, flat_result, regroup_result, coord_pc, coordinates_of>>

(***************************************************************************)
(* Bounds of the model.                                                    *)
(***************************************************************************)
MaxLen == 6          \* longest coordinates attribute string explored
MaxItems == 4        \* most groups + variables + dimensions of an input hierarchy
MaxDepth == 2        \* deepest nesting of groups in an input hierarchy
MaxTreeItems == 3    \* most groups + variables of a tree given to _is_file_empty

(***************************************************************************)
(* Python string primitives.                                               *)
(***************************************************************************)
\* The characters strings are made of: a letter, the underscore (legal in
\* netCDF names and the character GROUP_DELIM is made of), the path
\* separator and a whitespace character.
Chars == {"a", "_", "/", " "}

IsWhitespace(c) == c = " "

\* concatenator.group_delim and concatenator.coord_delim
GROUP_DELIM == <<"_", "_">>
COORD_DELIM == <<" ", " ">>

\* a returned value, or the exception that left the function
Returned(v) == [err |-> "none", val |-> v]
Raised(e) == [err |-> e, val |-> <<>>]

RECURSIVE ScanRuns(_, _, _, _, _)
\* the maximal runs of s, from position i on, of whitespace characters
\* (ws = TRUE) or of non-whitespace characters (ws = FALSE)
ScanRuns(s, i, cur, acc, ws) ==
    IF i > Len(s)
    THEN IF cur = <<>> THEN acc ELSE Append(acc, cur)
    ELSE IF IsWhitespace(s[i]) = ws
         THEN ScanRuns(s, i + 1, Append(cur, s[i]), acc, ws)
         ELSE ScanRuns(s, i + 1, <<>>, IF cur = <<>> THEN acc ELSE Append(acc, cur), ws)

\* re.findall(r"\s+", s)
re_findall_whitespace(s) == ScanRuns(s, 1, <<>>, <<>>, TRUE)

\* s.split(): split on any whitespace, no empty tokens
str_split_whitespace(s) == ScanRuns(s, 1, <<>>, <<>>, FALSE)

RECURSIVE ScanSplit(_, _, _, _, _)
ScanSplit(s, sep, i, cur, acc) ==
    IF i > Len(s)
    THEN Append(acc, cur)
    ELSE IF i + Len(sep) - 1 <= Len(s) /\ SubSeq(s, i, i + Len(sep) - 1) = sep
         THEN ScanSplit(s, sep, i + Len(sep), <<>>, Append(acc, cur))
         ELSE ScanSplit(s, sep, i + 1, Append(cur, s[i]), acc)

\* s.split(sep) for a non-empty sep: leftmost non-overlapping occurrences
str_split(s, sep) == ScanSplit(s, sep, 1, <<>>, <<>>)

RECURSIVE str_join(_, _)
\* sep.join(parts)
str_join(sep, parts) ==
    IF parts = <<>> THEN <<>>
    ELSE IF Len(parts) = 1 THEN parts[1]
    ELSE parts[1] \o sep \o str_join(sep, Tail(parts))

RECURSIVE ScanReplace(_, _, _, _)
ScanReplace(s, old, new, i) ==
    IF i > Len(s)
    THEN <<>>
    ELSE IF i + Len(old) - 1 <= Len(s) /\ SubSeq(s, i, i + Len(old) - 1) = old
         THEN new \o ScanReplace(s, old, new, i + Len(old))
         ELSE <<s[i]>> \o ScanReplace(s, old, new, i + 1)

\* s.replace(old, new) for a non-empty old
str_replace(s, old, new) == ScanReplace(s, old, new, 1)

\* set(seq)
SeqToSet(seq) == {seq[i] : i \in 1..Len(seq)}

\* [f(x) for x in seq]
MapSeq(f(_), seq) == [i \in 1..Len(seq) |-> f(seq[i])]

(***************************************************************************)
(* concatenator/attribute_handling.py                                      *)
(***************************************************************************)
\* f'{GROUP_DELIM}{c.replace("/", GROUP_DELIM)}'
flatten_token(c) == GROUP_DELIM \o str_replace(c, <<"/">>, GROUP_DELIM)

\* "/".join(c.split(GROUP_DELIM))[1:]
regroup_token(c) ==
    LET joined == str_join(<<"/">>, str_split(c, GROUP_DELIM))
    IN  SubSeq(joined, 2, Len(joined))

\* the separator both functions choose: whitespaces[0] raises IndexError on
\* an empty list
new_sep(a) ==
    LET whitespaces == re_findall_whitespace(a)
    IN  IF Cardinality(SeqToSet(whitespaces)) <= 1
        THEN IF whitespaces = <<>> THEN Raised("IndexError")
             ELSE Returned(whitespaces[1])
        ELSE Returned(COORD_DELIM)

flatten_coordinate_attribute(a) ==
    LET sep == new_sep(a)
    IN  IF sep.err # "none" THEN sep
        ELSE Returned(str_join(sep.val, MapSeq(flatten_token, str_split_whitespace(a))))

regroup_coordinate_attribute(a) ==
    LET sep == new_sep(a)
    IN  IF sep.err # "none" THEN sep
        ELSE Returned(str_join(sep.val, MapSeq(regroup_token, str_split_whitespace(a))))

(***************************************************************************)
(* The codec as a state machine: an attribute string is flattened, and the *)
(* flattened string is regrouped.                                          *)
(***************************************************************************)
Strings(n) == UNION {[1..k -> Chars] : k \in 0..n}

NoResult == Raised("not called")

\* the parts of the state a specification does not use
NoCoordinates == coordinates_of = [owner |-> <<>>, refs |-> <<>>]

IdleCoord ==
    /\ attribute_string = <<>>
    /\ flat_result = NoResult
    /\ regroup_result = NoResult
    /\ coord_pc = "idle"
    /\ NoCoordinates

IdleCleanup ==
    /\ cleanup_input = [dimensions |-> <<>>, variables |-> <<>>]
    /\ cleanup_result = NoResult

IdleGroup ==
    /\ nc_dataset = [groups |-> {}, variables |-> {}, dimensions |-> {}]
    /\ flat_dataset = [variables |-> {}, dimensions |-> {}, coord_vars |-> {}]
    /\ output_dataset = [groups |-> {}, variables |-> {}, dimensions |-> {}, err |-> "none"]
    /\ group_pc = "idle"
    /\ input_file = [groups |-> {}, variables |-> {}, dimensions |-> {}]
    /\ input_file_at_start = input_file
    /\ stitchee_runs = <<>>
    /\ IdleCleanup

IdleEmpty ==
    /\ parent_group = [variables |-> <<>>, groups |-> <<>>]
    /\ is_empty_stitchee = <<>>
    /\ is_empty_concatenator = <<>>

IdleConcat ==
    /\ fs = <<>>
    /\ fs_at_call = <<>>
    /\ path_suffix = <<>>
    /\ files_to_concat = <<>>
    /\ output_file = 0
    /\ concat_method = ""
    /\ concat_dim = ""
    /\ sorting_variable = ""
    /\ overwrite_output_file = FALSE
    /\ history_to_append = <<>>
    /\ concat_result = [err |-> "not called", val |-> <<>>, opened |-> <<>>,
                        detail |-> <<>>, log |-> <<>>, open_handles |-> {}]
    /\ workable_stitchee = NoResult
    /\ workable_concatenator = NoResult
    /\ path_check = [function |-> "none", err |-> "not called", val |-> <<>>]
    /\ exit_status = <<>>

InitCoord ==
    /\ attribute_string \in Strings(MaxLen)
    /\ flat_result = NoResult
    /\ regroup_result = NoResult
    /\ coord_pc = "start"
    /\ NoCoordinates
    /\ IdleGroup
    /\ IdleEmpty
    /\ IdleConcat

FlattenCoordinateAttribute ==
    /\ coord_pc = "start"
    /\ flat_result' = flatten_coordinate_attribute(attribute_string)
    /\ coord_pc' = "flattened"
    /\ UNCHANGED <<attribute_string, regroup_result, coordinates_of>>
    /\ UNCHANGED groupVars
    /\ UNCHANGED emptyVars
    /\ UNCHANGED concatVars

RegroupCoordinateAttribute ==
    /\ coord_pc = "flattened"
    /\ flat_result.err = "none"
    /\ regroup_result' = regroup_coordinate_attribute(flat_result.val)
    /\ coord_pc' = "regrouped"
    /\ UNCHANGED <<attribute_string, flat_result, coordinates_of>>
    /\ UNCHANGED groupVars
    /\ UNCHANGED emptyVars
    /\ UNCHANGED concatVars

NextCoord == FlattenCoordinateAttribute \/ RegroupCoordinateAttribute

SpecCoord == InitCoord /\ [][NextCoord]_vars

(***************************************************************************)
(* Each function of the codec applied to an attribute string on its own.   *)
(***************************************************************************)
RegroupAttributeString ==
    /\ coord_pc = "start"
    /\ regroup_result' = regroup_coordinate_attribute(attribute_string)
    /\ coord_pc' = "regrouped alone"
    /\ UNCHANGED <<attribute_string, flat_result, coordinates_of>>
    /\ UNCHANGED groupVars
    /\ UNCHANGED emptyVars
    /\ UNCHANGED concatVars

NextEither == FlattenCoordinateAttribute \/ RegroupAttributeString

SpecEither == InitCoord /\ [][NextEither]_vars

(***************************************************************************)
(* Well-formed inputs of the codec.                                        *)
(***************************************************************************)
\* a netCDF name: starts with a letter; letters and underscores follow
IsName(n) ==
    /\ n # <<>>
    /\ n[1] = "a"
    /\ \A i \in 1..Len(n) : n[i] \in {"a", "_"}

\* a slash-delimited variable path: names separated by single slashes
IsPath(t) ==
    LET names == str_split(t, <<"/">>)
    IN  \A i \in 1..Len(names) : IsName(names[i])

\* two or more paths separated by one and the same whitespace run
IsUniformCoordinateList(s) ==
    LET tokens == str_split_whitespace(s)
        runs == re_findall_whitespace(s)
    IN  /\ Len(tokens) >= 2
        /\ Len(runs) = Len(tokens) - 1      \* no leading or trailing whitespace
        /\ Cardinality(SeqToSet(runs)) = 1
        /\ \A i \in 1..Len(tokens) : IsPath(tokens[i])

\* C1: for every coordinates attribute made of two or more slash-delimited
\* variable paths separated by one and the same whitespace run, regrouping
\* the flattened string gives the original string back.
C1_RoundTrip ==
    (coord_pc = "regrouped" /\ IsUniformCoordinateList(attribute_string))
        => regroup_result = Returned(attribute_string)

\* an attribute that holds a single token and no whitespace
IsSingleToken(s) == s # <<>> /\ \A i \in 1..Len(s) : ~IsWhitespace(s[i])

\* a single flattened path: the group delimiter and what follows it
IsFlattenedPath(s) ==
    /\ IsSingleToken(s)
    /\ Len(s) > Len(GROUP_DELIM)
    /\ SubSeq(s, 1, Len(GROUP_DELIM)) = GROUP_DELIM

\* C25: for a coordinates attribute that holds a single path and no
\* whitespace, _flatten_coordinate_attribute returns the flattened path and
\* regroup_coordinate_attribute returns the regrouped path; neither raises.
C25_SinglePathIsConverted ==
    /\ (coord_pc = "flattened" /\ IsPath(attribute_string)) =>
           flat_result = Returned(flatten_token(attribute_string))
    /\ (coord_pc = "regrouped alone" /\ IsFlattenedPath(attribute_string)) =>
           regroup_result = Returned(regroup_token(attribute_string))

\* a path written from the root with a leading slash
IsAbsolutePath(t) == t # <<>> /\ Head(t) = "/" /\ IsPath(Tail(t))

\* the path without its leading slash
RelativeToRoot(t) == IF IsAbsolutePath(t) THEN Tail(t) ELSE t

\* C26: flattening a path replaces every '/' by the group delimiter and
\* gives a name with exactly one leading delimiter, for a relative path
\* and equally for a path that already begins with '/'.
C26_OneLeadingDelimiter ==
    (coord_pc = "flattened" /\ flat_result.err = "none") =>
        LET paths == str_split_whitespace(attribute_string)
            names == str_split_whitespace(flat_result.val)
        IN  (\A i \in 1..Len(paths) : IsPath(paths[i]) \/ IsAbsolutePath(paths[i])) =>
                /\ Len(names) = Len(paths)
                /\ \A i \in 1..Len(paths) :
                       names[i] = GROUP_DELIM \o
                           str_replace(RelativeToRoot(paths[i]), <<"/">>, GROUP_DELIM)

(***************************************************************************)
(* concatenator/dataset_and_group_handling.py: flattening a hierarchy of   *)
(* groups into the root group, and regrouping the flat result.             *)
(*                                                                         *)
(* A group is its path, the sequence of group names from the root; the     *)
(* root is <<>>.  A variable is [path, name, dims] and a dimension is      *)
(* [path, name, size]; dims holds the dimensions the variable was created  *)
(* on, each the [path, name] of the dimension netCDF resolved the name to. *)
(***************************************************************************)
\* names used in the hierarchies explored: all legal netCDF names
GroupOrder == << <<"a">>, <<"a", "_">> >>
GroupNames == SeqToSet(GroupOrder)
VarNames == {<<"b">>, <<"a", "_", "_", "b">>, <<"d">>}
DimNames == {<<"d">>}
DimSizes == {2}

EmptyDataset == [groups |-> {}, variables |-> {}, dimensions |-> {}]

\* the prefixes of a path, the root excluded
Prefixes(path) == {SubSeq(path, 1, k) : k \in 1..Len(path)}

IsPrefix(p, q) == Len(p) <= Len(q) /\ SubSeq(q, 1, Len(p)) = p

\* netCDF4 name resolution: the dimension called name that a variable of
\* group path sees is the one of the nearest enclosing group
VisibleDims(ds, path, name) ==
    {d \in ds.dimensions : d.name = name /\ IsPrefix(d.path, path)}

ResolveDim(ds, path, name) ==
    LET seen == VisibleDims(ds, path, name)
        d == CHOOSE x \in seen : \A y \in seen : Len(y.path) <= Len(x.path)
    IN  [path |-> d.path, name |-> d.name]

ItemCount(ds) ==
    Cardinality(ds.groups) + Cardinality(ds.variables) + Cardinality(ds.dimensions)

\* f"{path}{group_delim}{key}" along the path, then group_delim and the name
RECURSIVE group_path(_)
group_path(path) ==
    IF path = <<>> THEN <<>>
    ELSE group_path(SubSeq(path, 1, Len(path) - 1)) \o GROUP_DELIM \o path[Len(path)]

\* walk: var_group_name, and new_var_name of the root loop
flat_var_name(path, name) == group_path(path) \o GROUP_DELIM \o name

\* walk: new_dim_name, and new_dim_name of the root loop
flat_dim_name(path, name) ==
    str_replace(group_path(path), <<"/">>, GROUP_DELIM) \o GROUP_DELIM \o name

\* the order in which walk visits the groups: the root loop first, then
\* depth first, siblings in the order of GroupOrder
GroupRank(n) == CHOOSE i \in 1..Len(GroupOrder) : GroupOrder[i] = n

RECURSIVE VisitedBefore(_, _)
VisitedBefore(p, q) ==
    IF p = <<>> THEN q # <<>>
    ELSE IF q = <<>> THEN FALSE
    ELSE IF Head(p) = Head(q) THEN VisitedBefore(Tail(p), Tail(q))
    ELSE GroupRank(Head(p)) < GroupRank(Head(q))

\* a dict keeps the last value assigned to a key: of the items that get
\* the same key, the one of the group visited last
LastWritten(items, key(_)) ==
    {x \in items : \A y \in items : key(y) = key(x) => ~VisitedBefore(x.path, y.path)}

FlatVariables(ds) ==
    LET key(v) == flat_var_name(v.path, v.name)
    IN  {[name |-> key(v), src |-> v,
          dims |-> [i \in 1..Len(v.dims) |-> flat_dim_name(v.dims[i].path, v.dims[i].name)]]
         : v \in LastWritten(ds.variables, key)}

FlatDimensions(ds) ==
    LET key(d) == flat_dim_name(d.path, d.name)
    IN  {[name |-> key(d), src |-> d] : d \in LastWritten(ds.dimensions, key)}

\* temporary_coordinate_variables: the root dimensions that had no
\* variable of their flattened name when the root loop renamed them
TemporaryCoordinateVariables(ds) ==
    {flat_dim_name(d.path, d.name) : d \in {x \in ds.dimensions : x.path = <<>>}}
    \ {flat_var_name(v.path, v.name) : v \in {x \in ds.variables : x.path = <<>>}}

flatten_grouped_dataset(ds) ==
    [variables |-> FlatVariables(ds),
     dimensions |-> FlatDimensions(ds),
     coord_vars |-> TemporaryCoordinateVariables(ds)]

(***************************************************************************)
(* The flat dataset as xarray presents it to regroup_flattened_dataset     *)
(* (xr.open_dataset(..., drop_variables=coord_vars) in stitchee): the      *)
(* temporary coordinate variables are dropped, and a Dataset has the       *)
(* dimensions its variables use.                                           *)
(***************************************************************************)
XrVariables(flat) == {v \in flat.variables : v.name \notin flat.coord_vars}

XrDims(flat) ==
    {d \in flat.dimensions : \E v \in XrVariables(flat) : d.name \in SeqToSet(v.dims)}

\* xarray makes a one-dimensional variable named like its dimension an
\* IndexVariable
IsIndexVariable(v) == v.dims = <<v.name>>

(***************************************************************************)
(* regroup_flattened_dataset                                               *)
(***************************************************************************)
AllButLast(seq) == SubSeq(seq, 1, Len(seq) - 1)

RECURSIVE str_lstrip(_, _)
str_lstrip(s, chars) ==
    IF s # <<>> /\ Head(s) \in chars THEN str_lstrip(Tail(s), chars) ELSE s

RECURSIVE str_rstrip(_, _)
str_rstrip(s, chars) ==
    IF s # <<>> /\ s[Len(s)] \in chars THEN str_rstrip(AllButLast(s), chars) ELSE s

\* s.strip(chars): every leading and trailing character that is in chars
str_strip(s, chars) == str_rstrip(str_lstrip(s, chars), chars)

\* s.rsplit(sep, 1)[-1]: what follows the last occurrence of sep
rsplit_last(s, sep) ==
    LET at == {i \in 1..(Len(s) - Len(sep) + 1) : SubSeq(s, i, i + Len(sep) - 1) = sep}
    IN  IF at = {} THEN s
        ELSE LET i == CHOOSE x \in at : \A y \in at : y <= x
             IN  SubSeq(s, i + Len(sep), Len(s))

\* "/".join(str(var_name).split(group_delim)[:-1]), "" replaced by "/"
group_of_name(name) ==
    LET g == str_join(<<"/">>, AllButLast(str_split(name, GROUP_DELIM)))
    IN  IF g = <<>> THEN <<"/">> ELSE g

\* base_dataset.createGroup(group): the group and the groups above it
SelectNonEmpty(seq) == SelectSeq(seq, LAMBDA x : x # <<>>)

createGroup(group) == Prefixes(SelectNonEmpty(str_split(group, <<"/">>)))

CreatedGroups(flat) ==
    UNION {createGroup(group_of_name(v.name)) : v \in XrVariables(flat)}

\* _get_nested_group: nested_group.groups[group] raises KeyError for a
\* group that was not created
get_nested_group(groups, name) ==
    LET path == AllButLast(str_split(str_strip(name, SeqToSet(GROUP_DELIM)), GROUP_DELIM))
    IN  IF Prefixes(path) \subseteq groups THEN Returned(path) ELSE Raised("KeyError")

\* the "Copy dimensions" loop: the dimension each xarray dimension becomes,
\* or the error that creating it raises
RegroupedDimension(groups, d) ==
    LET g == get_nested_group(groups, d.name)
    IN  IF g.err # "none" THEN g
        ELSE Returned([path |-> g.val,
                       name |-> rsplit_last(d.name, GROUP_DELIM),
                       size |-> d.src.size])

\* two of the items get the same name in the same group: netCDF refuses
\* the second one
NameInUse(created) ==
    \E x, y \in created : x # y /\ x.val.path = y.val.path /\ x.val.name = y.val.name

\* Python's None, among values that are one-element tuples
None == <<>>

\* _get_dimension_size: the root's dimension of that name, else the one of
\* a top-level group, else None (after the print)
get_dimension_size(dims, dim_name) ==
    LET root == {d \in dims : d.path = <<>> /\ d.name = dim_name}
        top == {d \in dims : Len(d.path) = 1 /\ d.name = dim_name}
    IN  IF root # {} THEN {<<d.size>> : d \in root}
        ELSE IF top # {} THEN {<<d.size>> : d \in top}
        ELSE {None}

DefaultLowDimChunksize == 4000
HighDimChunksize == 500

\* _calculate_chunks; None > 4000 raises TypeError
calculate_chunks(dim_sizes) ==
    IF \E i \in 1..Len(dim_sizes) : dim_sizes[i] = None
    THEN Raised("TypeError")
    ELSE IF Len(dim_sizes) <= 3
    THEN Returned([i \in 1..Len(dim_sizes) |->
            IF dim_sizes[i][1] > DefaultLowDimChunksize /\ Len(dim_sizes) > 1
            THEN DefaultLowDimChunksize ELSE dim_sizes[i][1]])
    ELSE Returned([i \in 1..Len(dim_sizes) |->
            IF dim_sizes[i][1] > HighDimChunksize THEN HighDimChunksize ELSE dim_sizes[i][1]])

\* the length of the dimension a variable of the group at path means by
\* a name: the one of the nearest group at or above it
dimension_at(dims, path, name) ==
    LET seen == {d \in dims : d.name = name /\ IsPrefix(d.path, path)}
    IN  CHOOSE d \in seen : \A e \in seen : Len(e.path) <= Len(d.path)

dimension_size(dims, path, name) == dimension_at(dims, path, name).size

\* the "Copy variables" loop for one variable: sizes[i] is the size
\* _get_dimension_size found for the i-th dimension
RegroupedVariable(groups, dims, v, sizes) ==
    LET g == get_nested_group(groups, v.name)
        new_var_name == rsplit_last(v.name, GROUP_DELIM)
        new_var_dims == IF IsIndexVariable(v) THEN <<new_var_name>>
                        ELSE [i \in 1..Len(v.dims) |-> rsplit_last(v.dims[i], GROUP_DELIM)]
        \* chunk_sizes = None for an IndexVariable
        chunk_sizes == IF IsIndexVariable(v) THEN Returned(None)
                       ELSE calculate_chunks(sizes)
        \* createVariable finds each dimension in the group or above it
        found == \A i \in 1..Len(new_var_dims) :
                    \E d \in dims : d.name = new_var_dims[i] /\ IsPrefix(d.path, g.val)
        \* the library refuses a chunk longer than its fixed-length dimension
        bad_chunk == /\ ~IsIndexVariable(v)
                     /\ \E i \in 1..Len(new_var_dims) :
                            chunk_sizes.val[i] > dimension_size(dims, g.val, new_var_dims[i])
    IN  IF g.err # "none" THEN g
        ELSE IF chunk_sizes.err # "none" THEN chunk_sizes
        ELSE IF ~found THEN Raised("ValueError")
        ELSE IF bad_chunk THEN Raised("RuntimeError")
        ELSE Returned([path |-> g.val, name |-> new_var_name,
                       dims |-> new_var_dims,
                       chunked |-> ~IsIndexVariable(v), chunks |-> chunk_sizes.val])

\* the sizes _get_dimension_size can return for the dimensions of v
DimensionSizes(dims, v) ==
    LET found(i) == get_dimension_size(dims, rsplit_last(v.dims[i], GROUP_DELIM))
    IN  {sizes \in [1..Len(v.dims) -> UNION {found(i) : i \in 1..Len(v.dims)}] :
            \A i \in 1..Len(v.dims) : sizes[i] \in found(i)}

Values(results) == {r.val : r \in {x \in results : x.err = "none"}}

FirstError(results) ==
    IF \A r \in results : r.err = "none" THEN "none"
    ELSE (CHOOSE r \in results : r.err # "none").err

\* the dimensions the "Copy dimensions" loop creates
CreatedDimensions(flat) ==
    Values({RegroupedDimension(CreatedGroups(flat), d) : d \in XrDims(flat)})

\* what _get_dimension_size can find for each variable
SizesFound(flat) ==
    LET vs == XrVariables(flat)
        dims == CreatedDimensions(flat)
    IN  {pick \in [vs -> UNION {DimensionSizes(dims, v) : v \in vs}] :
            \A v \in vs : pick[v] \in DimensionSizes(dims, v)}

\* regroup_flattened_dataset, with pick[v] the sizes found for variable v
regroup_flattened_dataset(flat, pick) ==
    LET groups == CreatedGroups(flat)
        dim_results == {RegroupedDimension(groups, d) : d \in XrDims(flat)}
        dims == CreatedDimensions(flat)
        dim_err == IF FirstError(dim_results) # "none" THEN FirstError(dim_results)
                   ELSE IF NameInUse(dim_results) THEN "RuntimeError" ELSE "none"
        var_results == {RegroupedVariable(groups, dims, v, pick[v]) : v \in XrVariables(flat)}
        var_err == IF FirstError(var_results) # "none" THEN FirstError(var_results)
                   ELSE IF NameInUse(var_results) THEN "RuntimeError" ELSE "none"
    IN  [groups |-> groups,
         dimensions |-> dims,
         variables |-> IF dim_err = "none" THEN Values(var_results) ELSE {},
         err |-> IF dim_err # "none" THEN dim_err ELSE var_err]

(***************************************************************************)
(* Flattening and regrouping as a state machine: a hierarchy is built with *)
(* createGroup, createDimension and createVariable (as the test fixtures   *)
(* build theirs), flattened, and the flat dataset regrouped.               *)
(***************************************************************************)
InitGroup ==
    /\ nc_dataset = EmptyDataset
    /\ flat_dataset = [variables |-> {}, dimensions |-> {}, coord_vars |-> {}]
    /\ output_dataset = [groups |-> {}, variables |-> {}, dimensions |-> {}, err |-> "none"]
    /\ group_pc = "grouped"
    /\ input_file = EmptyDataset
    /\ input_file_at_start = EmptyDataset
    /\ stitchee_runs = <<>>
    /\ IdleCleanup
    /\ IdleCoord
    /\ IdleEmpty
    /\ IdleConcat

GroupsAndRoot == nc_dataset.groups \cup {<<>>}

CreateGroup ==
    /\ group_pc = "grouped"
    /\ ItemCount(nc_dataset) < MaxItems
    /\ \E parent \in GroupsAndRoot, name \in GroupNames :
        /\ Len(parent) < MaxDepth
        /\ Append(parent, name) \notin nc_dataset.groups
        /\ nc_dataset' = [nc_dataset EXCEPT !.groups = @ \cup {Append(parent, name)}]
    /\ UNCHANGED <<flat_dataset, output_dataset, group_pc,
                   input_file, input_file_at_start, stitchee_runs,
                   cleanup_input, cleanup_result>>
    /\ UNCHANGED coordVars
    /\ UNCHANGED emptyVars
    /\ UNCHANGED concatVars

CreateDimension ==
    /\ group_pc = "grouped"
    /\ ItemCount(nc_dataset) < MaxItems
    /\ \E path \in GroupsAndRoot, name \in DimNames, size \in DimSizes :
        /\ \A d \in nc_dataset.dimensions : ~(d.path = path /\ d.name = name)
        /\ nc_dataset' = [nc_dataset EXCEPT !.dimensions =
                            @ \cup {[path |-> path, name |-> name, size |-> size]}]
    /\ UNCHANGED <<flat_dataset, output_dataset, group_pc,
                   input_file, input_file_at_start, stitchee_runs,
                   cleanup_input, cleanup_result>>
    /\ UNCHANGED coordVars
    /\ UNCHANGED emptyVars
    /\ UNCHANGED concatVars

\* a variable is a scalar or has one dimension, which must be visible
CreateVariable ==
    /\ group_pc = "grouped"
    /\ ItemCount(nc_dataset) < MaxItems
    /\ \E path \in GroupsAndRoot, name \in VarNames :
        /\ \A v \in nc_dataset.variables : ~(v.path = path /\ v.name = name)
        /\ \E dims \in {<<>>} \cup
                {<<ResolveDim(nc_dataset, path, n)>> :
                    n \in {m \in DimNames : VisibleDims(nc_dataset, path, m) # {}}} :
            nc_dataset' = [nc_dataset EXCEPT !.variables =
                            @ \cup {[path |-> path, name |-> name, dims |-> dims]}]
    /\ UNCHANGED <<flat_dataset, output_dataset, group_pc,
                   input_file, input_file_at_start, stitchee_runs,
                   cleanup_input, cleanup_result>>
    /\ UNCHANGED coordVars
    /\ UNCHANGED emptyVars
    /\ UNCHANGED concatVars

FlattenGroupedDataset ==
    /\ group_pc = "grouped"
    /\ flat_dataset' = flatten_grouped_dataset(nc_dataset)
    /\ group_pc' = "flat"
    /\ UNCHANGED <<nc_dataset, output_dataset,
                   input_file, input_file_at_start, stitchee_runs,
                   cleanup_input, cleanup_result>>
    /\ UNCHANGED coordVars
    /\ UNCHANGED emptyVars
    /\ UNCHANGED concatVars

RegroupFlattenedDataset ==
    /\ group_pc = "flat"
    /\ \E pick \in SizesFound(flat_dataset) :
        output_dataset' = regroup_flattened_dataset(flat_dataset, pick)
    /\ group_pc' = "regrouped"
    /\ UNCHANGED <<nc_dataset, flat_dataset,
                   input_file, input_file_at_start, stitchee_runs,
                   cleanup_input, cleanup_result>>
    /\ UNCHANGED coordVars
    /\ UNCHANGED emptyVars
    /\ UNCHANGED concatVars

NextGroup ==
    \/ CreateGroup
    \/ CreateDimension
    \/ CreateVariable
    \/ FlattenGroupedDataset
    \/ RegroupFlattenedDataset

SpecGroup == InitGroup /\ [][NextGroup]_vars

Located(items) == {[path |-> x.path, name |-> x.name] : x \in items}

\* C2: flattening and then regrouping recreates every variable and every
\* dimension under its original group path and leaf name, loses, merges or
\* moves no group, variable or dimension, and raises no error.
C2_HierarchyRoundTrip ==
    group_pc = "regrouped" =>
        /\ output_dataset.err = "none"
        /\ output_dataset.groups = nc_dataset.groups
        /\ Located(output_dataset.variables) = Located(nc_dataset.variables)
        /\ Located(output_dataset.dimensions) = Located(nc_dataset.dimensions)

(***************************************************************************)
(* flatten_grouped_dataset on a hierarchy in which one variable, the       *)
(* owner, has a coordinates attribute.  The attribute lists variables of   *)
(* the file, each written as netCDF and CF allow: by its absolute path     *)
(* ("/a/b"), by its path from the root without the leading slash ("a/b",   *)
(* the form of the docstring of _flatten_coordinate_attribute), or, for a  *)
(* variable of the owner's own group, by its bare name ("b").              *)
(***************************************************************************)
MaxRefs == 2         \* most variables listed in a coordinates attribute

\* the path of a variable as a string
path_string(path, name) == str_join(<<"/">>, path \o <<name>>)

\* an entry of the attribute as it is written in the file
written_reference(ref) ==
    IF ref.form = "absolute" THEN <<"/">> \o path_string(ref.path, ref.name)
    ELSE IF ref.form = "from root" THEN path_string(ref.path, ref.name)
    ELSE ref.name

\* var.getncattr("coordinates") with single spaces between the entries
coordinates_attribute(refs) ==
    str_join(<<" ">>, [i \in 1..Len(refs) |-> written_reference(refs[i])])

\* the forms in which a variable can be listed by the owner
ReferenceForms(owner, v) ==
    {"absolute", "from root"} \cup (IF v.path = owner.path THEN {"bare name"} ELSE {})

References(owner, variables) ==
    UNION {{[path |-> v.path, name |-> v.name, form |-> form] :
               form \in ReferenceForms(owner, v)} : v \in variables}

CoordinateHierarchies ==
    UNION {{[groups |-> groups, dimensions |-> {}, variables |-> variables] :
               variables \in (SUBSET {[path |-> p, name |-> n, dims |-> <<>>] :
                                 p \in groups \cup {<<>>}, n \in {<<"b">>, <<"d">>}}) \ {{}}}
           : groups \in {{}, {<< <<"a">> >>}}}

InitCoordinatePaths ==
    /\ nc_dataset \in CoordinateHierarchies
    /\ \E owner \in nc_dataset.variables :
        \E k \in 1..MaxRefs :
            \E refs \in [1..k -> References(owner, nc_dataset.variables)] :
                /\ coordinates_of = [owner |-> owner, refs |-> refs]
                /\ attribute_string = coordinates_attribute(refs)
    /\ flat_result = NoResult
    /\ regroup_result = NoResult
    /\ coord_pc = "start"
    /\ flat_dataset = [variables |-> {}, dimensions |-> {}, coord_vars |-> {}]
    /\ output_dataset = [groups |-> {}, variables |-> {}, dimensions |-> {}, err |-> "none"]
    /\ group_pc = "grouped"
    /\ input_file = EmptyDataset
    /\ input_file_at_start = EmptyDataset
    /\ stitchee_runs = <<>>
    /\ IdleCleanup
    /\ IdleEmpty
    /\ IdleConcat

\* flatten_grouped_dataset: flatten_coordinate_attribute_paths rewrites the
\* owner's attribute when the owner is renamed; an exception of
\* _flatten_coordinate_attribute leaves flatten_grouped_dataset
FlattenCoordinateAttributePaths ==
    /\ coord_pc = "start"
    /\ group_pc = "grouped"
    /\ flat_result' = flatten_coordinate_attribute(attribute_string)
    /\ coord_pc' = "flattened"
    /\ IF flat_result'.err = "none"
       THEN /\ flat_dataset' = flatten_grouped_dataset(nc_dataset)
            /\ group_pc' = "flat"
       ELSE /\ flat_dataset' = flat_dataset
            /\ group_pc' = "failed"
    /\ UNCHANGED <<attribute_string, regroup_result, coordinates_of>>
    /\ UNCHANGED <<nc_dataset, output_dataset, input_file, input_file_at_start,
                   stitchee_runs, cleanup_input, cleanup_result>>
    /\ UNCHANGED emptyVars
    /\ UNCHANGED concatVars

NextCoordinatePaths == FlattenCoordinateAttributePaths

SpecCoordinatePaths == InitCoordinatePaths /\ [][NextCoordinatePaths]_vars

\* C24: after flattening, every name listed in the coordinates attribute
\* of a variable (of the root or of any group) is the flattened name of the
\* variable the entry referred to before flattening, and so the name of a
\* variable of the flattened dataset.
C24_CoordinatesFollowTheRenaming ==
    (coord_pc = "flattened" /\ coordinates_of.refs # <<>>) =>
        /\ flat_result.err = "none"
        /\ LET names == str_split_whitespace(flat_result.val)
               refs == coordinates_of.refs
           IN  /\ Len(names) = Len(refs)
               /\ \A i \in 1..Len(refs) :
                      /\ names[i] = flat_var_name(refs[i].path, refs[i].name)
                      /\ \E f \in flat_dataset.variables : f.name = names[i]

Flattened == group_pc \in {"flat", "regrouped"}

\* C23: after flatten_grouped_dataset every variable and every dimension
\* of the input is in the root under a name that starts with the group
\* delimiter and encodes its group path; distinct source paths have
\* distinct flattened names, so there are as many variables and as many
\* dimensions as before and none has been overwritten.  (No child group
\* remains: the flat dataset is the root group alone.)
C23_NothingOverwrittenByFlattening ==
    Flattened =>
        /\ \A v \in nc_dataset.variables :
               /\ IsPrefix(GROUP_DELIM, flat_var_name(v.path, v.name))
               /\ \E f \in flat_dataset.variables :
                      f.src = v /\ f.name = flat_var_name(v.path, v.name)
        /\ \A d \in nc_dataset.dimensions :
               /\ IsPrefix(GROUP_DELIM, flat_dim_name(d.path, d.name))
               /\ \E f \in flat_dataset.dimensions :
                      f.src = d /\ f.name = flat_dim_name(d.path, d.name)
        /\ \A v, w \in nc_dataset.variables :
               v # w => flat_var_name(v.path, v.name) # flat_var_name(w.path, w.name)
        /\ \A d, e \in nc_dataset.dimensions :
               d # e => flat_dim_name(d.path, d.name) # flat_dim_name(e.path, e.name)
        /\ Cardinality(flat_dataset.variables) = Cardinality(nc_dataset.variables)
        /\ Cardinality(flat_dataset.dimensions) = Cardinality(nc_dataset.dimensions)

(***************************************************************************)
(* Chunk sizes: regroup_flattened_dataset on the flattened form of a       *)
(* hierarchy whose dimensions have lengths below, between and above the    *)
(* two chunk limits.  The root has the first dimensions of ChunkDimNames,  *)
(* some groups have a dimension d of their own, every dimension d has its  *)
(* coordinate variable, and a variable b of some group uses every          *)
(* dimension name its group can see.                                       *)
(***************************************************************************)
MaxAxes == 4         \* most dimensions of the variable b

ChunkDimNames == << <<"d">>, <<"e">>, <<"f">>, <<"g">>, <<"h">> >>
ChunkDimSizes == {3, 501, 4001}
ChunkGroups == {{}, {<< <<"a">> >>}, {<< <<"a">> >>, << <<"a">>, <<"a">> >>}}

\* the dimension names a group can see, in the order of ChunkDimNames
VisibleNames(ds, path) ==
    SelectSeq(ChunkDimNames, LAMBDA n : VisibleDims(ds, path, n) # {})

\* the variable b of the group at path, over every name it can see
ChunkedVariable(ds, path) ==
    LET names == VisibleNames(ds, path)
    IN  [path |-> path, name |-> <<"b">>,
         dims |-> [i \in 1..Len(names) |-> ResolveDim(ds, path, names[i])]]

CoordinateVariables(dimensions) ==
    {[path |-> d.path, name |-> d.name, dims |-> <<[path |-> d.path, name |-> d.name]>>]
        : d \in {x \in dimensions : x.name = <<"d">>}}

InitChunks ==
    /\ \E groups \in ChunkGroups, in_root \in 0..MaxAxes :
        \E own \in SUBSET groups, path \in groups \cup {<<>>} :
            LET slots == {[path |-> <<>>, name |-> ChunkDimNames[i]] : i \in 1..in_root}
                            \cup {[path |-> g, name |-> <<"d">>] : g \in own}
            IN  \E size \in [slots -> ChunkDimSizes] :
                    LET dimensions == {[path |-> x.path, name |-> x.name, size |-> size[x]]
                                          : x \in slots}
                        ds == [groups |-> groups, dimensions |-> dimensions,
                               variables |-> CoordinateVariables(dimensions)]
                    IN  nc_dataset = [ds EXCEPT !.variables =
                                         @ \cup {ChunkedVariable(ds, path)}]
    /\ flat_dataset = [variables |-> {}, dimensions |-> {}, coord_vars |-> {}]
    /\ output_dataset = [groups |-> {}, variables |-> {}, dimensions |-> {}, err |-> "none"]
    /\ group_pc = "grouped"
    /\ input_file = EmptyDataset
    /\ input_file_at_start = EmptyDataset
    /\ stitchee_runs = <<>>
    /\ IdleCleanup
    /\ IdleCoord
    /\ IdleEmpty
    /\ IdleConcat

NextChunks ==
    \/ FlattenGroupedDataset
    \/ RegroupFlattenedDataset

SpecChunks == InitChunks /\ [][NextChunks]_vars

\* the chunk size the rule gives an axis of the given size in a variable
\* of the given number of dimensions
ChunkOfSize(size, number_of_dims) ==
    IF number_of_dims > 3 THEN (IF size > 500 THEN 500 ELSE size)
    ELSE IF number_of_dims > 1 /\ size > 4000 THEN 4000
    ELSE size

\* C29: for each non-index variable written by regroup_flattened_dataset,
\* the chunk size on every axis is computed from the size of the dimension
\* that axis actually refers to and never exceeds that size: with 2 or 3
\* dimensions an axis longer than 4000 gets 4000 and any other axis its
\* full size, with 1 dimension the axis gets its full size, and with more
\* than 3 dimensions each axis gets min(size, 500).
C29_ChunksFollowTheDimensions ==
    group_pc = "regrouped" =>
        \A w \in output_dataset.variables :
            w.chunked =>
                \A i \in 1..Len(w.dims) :
                    LET size == dimension_size(output_dataset.dimensions, w.path, w.dims[i])
                    IN  /\ w.chunks[i] = ChunkOfSize(size, Len(w.dims))
                        /\ w.chunks[i] <= size


(***************************************************************************)
(* _is_file_empty, in stitchee/file_ops.py and in concatenator/file_ops.py *)
(*                                                                         *)
(* A group is [variables, groups]: its variables and its child groups, in  *)
(* the order netCDF4 lists them.  A variable is [declares_fill, data]:     *)
(* whether it has a _FillValue attribute, and its elements.  An element is *)
(* [masked, data]: its bit of var[:].mask and what var[:].data holds there:*)
(* "fill" (the variable's fill value), "nan", or "real" (any other value). *)
(* netCDF4 reads every variable as a masked array and masks the elements   *)
(* that equal the fill value, so a "fill" element is always masked; a      *)
(* masked element holding another value is one masked by missing_value or  *)
(* by the valid range.                                                     *)
(***************************************************************************)
Element(masked, data) == [masked |-> masked, data |-> data]

Variable(declares_fill, data) == [declares_fill |-> declares_fill, data |-> data]

\* the variables explored
ZeroSize == Variable(TRUE, <<>>)
MaskedFill == Variable(TRUE, <<Element(TRUE, "fill"), Element(TRUE, "fill")>>)
MaskedDefaultFill == Variable(FALSE, <<Element(TRUE, "fill"), Element(TRUE, "fill")>>)
MaskedMissingValue == Variable(TRUE, <<Element(TRUE, "real"), Element(TRUE, "real")>>)
MaskedMixed == Variable(TRUE, <<Element(TRUE, "fill"), Element(TRUE, "real")>>)
AllNaN == Variable(FALSE, <<Element(FALSE, "nan"), Element(FALSE, "nan")>>)
AllReal == Variable(FALSE, <<Element(FALSE, "real"), Element(FALSE, "real")>>)
RealAndFill == Variable(TRUE, <<Element(TRUE, "fill"), Element(FALSE, "real")>>)
RealAndNaN == Variable(FALSE, <<Element(FALSE, "nan"), Element(FALSE, "real")>>)
FillAndNaN == Variable(TRUE, <<Element(TRUE, "fill"), Element(FALSE, "nan")>>)

Variables ==
    {ZeroSize, MaskedFill, MaskedDefaultFill, MaskedMissingValue, MaskedMixed,
     AllNaN, AllReal, RealAndFill, RealAndNaN, FillAndNaN}

\* np.ma.isMaskedArray(var[:])
isMaskedArray(var) == TRUE

\* var[:].mask.all()
mask_all(var) == \A i \in 1..Len(var.data) : var.data[i].masked

\* np.all(var[:].data == fill_or_null): nothing equals np.nan, which
\* fill_or_null is without a _FillValue attribute
all_equal_fill(var) ==
    \A i \in 1..Len(var.data) : var.declares_fill /\ var.data[i].data = "fill"

\* np.all(np.isnan(var[:].data))
all_isnan(var) == \A i \in 1..Len(var.data) : var.data[i].data = "nan"

\* stitchee/file_ops.py: the body of the loop over the variables; TRUE when
\* the loop goes on to the next variable, FALSE when it returns False
variable_passes_stitchee(var) ==
    IF Len(var.data) = 0 THEN TRUE
    ELSE IF isMaskedArray(var) /\ ~mask_all(var) /\ ~all_isnan(var) THEN FALSE
    ELSE IF ~all_equal_fill(var) /\ ~all_isnan(var) THEN FALSE
    ELSE TRUE

\* concatenator/file_ops.py: the body of the loop over the variables
variable_passes_concatenator(var) ==
    IF Len(var.data) # 0
    THEN LET empty_way_1 == IF isMaskedArray(var) THEN mask_all(var) ELSE FALSE
             empty_way_2 == all_equal_fill(var)
             empty_way_3 == all_isnan(var)
         IN  empty_way_1 \/ empty_way_2 \/ empty_way_3
    ELSE TRUE

RECURSIVE is_file_empty_stitchee(_)
\* stitchee/file_ops.py: every child group is checked
is_file_empty_stitchee(group) ==
    IF \E i \in 1..Len(group.variables) : ~variable_passes_stitchee(group.variables[i])
    THEN FALSE
    ELSE IF \E i \in 1..Len(group.groups) : ~is_file_empty_stitchee(group.groups[i])
    THEN FALSE
    ELSE TRUE

RECURSIVE is_file_empty_concatenator(_)
\* concatenator/file_ops.py: the loop over the child groups returns in its
\* first iteration
is_file_empty_concatenator(group) ==
    IF \E i \in 1..Len(group.variables) : ~variable_passes_concatenator(group.variables[i])
    THEN FALSE
    ELSE IF Len(group.groups) > 0
    THEN is_file_empty_concatenator(group.groups[1])
    ELSE TRUE

(***************************************************************************)
(* The group trees explored: at most n groups and variables below the      *)
(* root, groups nested at most d deep.                                     *)
(***************************************************************************)
RECURSIVE VariableLists(_)
VariableLists(k) ==
    IF k = 0 THEN {<<>>}
    ELSE {<<>>} \cup {<<v>> \o vs : v \in Variables, vs \in VariableLists(k - 1)}

RECURSIVE Trees(_, _)
RECURSIVE Forests(_, _)
Trees(n, d) ==
    UNION {{[variables |-> vs, groups |-> gs] :
                vs \in {x \in VariableLists(k) : Len(x) = k}, gs \in Forests(n - k, d)}
           : k \in 0..n}

Forests(m, d) ==
    IF m = 0 \/ d = 0 THEN {<<>>}
    ELSE {<<>>} \cup
         UNION {{<<t>> \o f : t \in Trees(k, d - 1), f \in Forests(m - 1 - k, d)}
                : k \in 0..(m - 1)}

InitEmpty ==
    /\ parent_group \in Trees(MaxTreeItems, MaxDepth)
    /\ is_empty_stitchee = <<>>
    /\ is_empty_concatenator = <<>>
    /\ IdleCoord
    /\ IdleGroup
    /\ IdleConcat

IsFileEmptyStitchee ==
    /\ is_empty_stitchee = <<>>
    /\ is_empty_stitchee' = <<is_file_empty_stitchee(parent_group)>>
    /\ UNCHANGED <<parent_group, is_empty_concatenator>>
    /\ UNCHANGED coordVars
    /\ UNCHANGED groupVars
    /\ UNCHANGED concatVars

IsFileEmptyConcatenator ==
    /\ is_empty_concatenator = <<>>
    /\ is_empty_concatenator' = <<is_file_empty_concatenator(parent_group)>>
    /\ UNCHANGED <<parent_group, is_empty_stitchee>>
    /\ UNCHANGED coordVars
    /\ UNCHANGED groupVars
    /\ UNCHANGED concatVars

NextEmpty == IsFileEmptyStitchee \/ IsFileEmptyConcatenator

SpecEmpty == InitEmpty /\ [][NextEmpty]_vars

\* the variables of a tree, at every depth
RECURSIVE AllVariables(_)
AllVariables(group) ==
    SeqToSet(group.variables) \cup
    UNION {AllVariables(group.groups[i]) : i \in 1..Len(group.groups)}

\* zero-size, or entirely masked, or entirely its fill value, or entirely NaN
IsNullVariable(var) ==
    \/ Len(var.data) = 0
    \/ \A i \in 1..Len(var.data) : var.data[i].masked
    \/ \A i \in 1..Len(var.data) : var.data[i].data = "fill"
    \/ \A i \in 1..Len(var.data) : var.data[i].data = "nan"

\* holds at least one value that is unmasked, not the fill value, not NaN
HasRealValue(var) ==
    \E i \in 1..Len(var.data) : ~var.data[i].masked /\ var.data[i].data = "real"

\* C9: both versions of _is_file_empty return True for every group tree in
\* which each variable of every group is zero-size, entirely masked,
\* entirely equal to its fill value, or entirely NaN.
C9_NullTreeIsEmpty ==
    (\A var \in AllVariables(parent_group) : IsNullVariable(var)) =>
        /\ is_empty_stitchee \in {<<>>, <<TRUE>>}
        /\ is_empty_concatenator \in {<<>>, <<TRUE>>}

\* C10: both versions of _is_file_empty return False for every group tree
\* that has, in any group at any depth and at any position among its
\* siblings, a variable holding at least one value that is unmasked, not
\* the fill value and not NaN.
C10_RealValueIsNotEmpty ==
    (\E var \in AllVariables(parent_group) : HasRealValue(var)) =>
        /\ is_empty_stitchee \in {<<>>, <<FALSE>>}
        /\ is_empty_concatenator \in {<<>>, <<FALSE>>}

(***************************************************************************)
(* Files and the file system                                               *)
(*                                                                         *)
(* A path is a number (a resolved path); the path string handed back by    *)
(* concatenate() is <<path>> and the empty string is <<>>.  fs maps each   *)
(* path to what is stored there; a netCDF file is summarised by the group  *)
(* paths of its tree (keys), the values of its variable "step" along the   *)
(* dimension "step" (step), the values of a second variable along that     *)
(* dimension (other), and whether all its data are masked fill values.     *)
(***************************************************************************)
MaxFiles == 3        \* most input files of a concatenation (data cases)
MaxRuns == 2         \* most runs of stitchee() on the same input file
MaxPaths == 2        \* most input paths of a call (argument and file-system cases)

File(kind, entries, keys, step, other, masked) ==
    [kind |-> kind, entries |-> entries, keys |-> keys, step |-> step,
     other |-> other, masked |-> masked, history_json |-> <<>>]

Missing == File("missing", <<>>, {}, <<>>, <<>>, FALSE)

\* a directory holding the files `entries`
Directory(entries) == File("directory", entries, {}, <<>>, <<>>, FALSE)

\* a UTF-8 text file listing the paths `entries`
TextFile(entries) == File("text", entries, {}, <<>>, <<>>, FALSE)

\* a regular file that is neither netCDF nor UTF-8 text
Garbage == File("garbage", <<>>, {}, <<>>, <<>>, FALSE)

NetCDF(keys, step, other, masked) == File("netcdf", <<>>, keys, step, other, masked)

\* what a write that failed part-way leaves behind
PartialFile == File("partial", <<>>, {}, <<>>, <<>>, FALSE)

GranuleA == NetCDF({"/"}, <<9, 10, 11>>, <<"a1", "a2", "a3">>, FALSE)
GranuleB == NetCDF({"/"}, <<12, 13, 14>>, <<"b1", "b2", "b3">>, FALSE)
GranuleC == NetCDF({"/"}, <<6, 7, 8>>, <<"c1", "c2", "c3">>, FALSE)
GranuleD == NetCDF({"/"}, <<7, 13>>, <<"d1", "d2">>, FALSE)
GranuleE == NetCDF({"/"}, <<0, 0>>, <<"", "">>, TRUE)
GranuleG == NetCDF({"/", "/g"}, <<15>>, <<"g1">>, FALSE)
GranuleH == NetCDF({"/"}, <<9, 12>>, <<"h1", "h2">>, FALSE)

NETCDF_EXTENSIONS == {".nc", ".nc4", ".netcdf"}

SUPPORTED_CONCAT_METHODS == {"xarray-concat", "xarray-combine"}

\* Path.is_dir() and Path.is_file()
is_dir(file) == file.kind = "directory"

is_file(file) == file.kind \in {"text", "garbage", "netcdf", "partial"}

\* the tree netCDF4 shows for a netCDF file
DatasetTree(file) ==
    LET element == Element(file.masked, IF file.masked THEN "fill" ELSE "real")
        variable(values) == Variable(TRUE, [i \in 1..Len(values) |-> element])
        child == [variables |-> <<>>, groups |-> <<>>]
        children == file.keys \ {"/"}
    IN  [variables |-> <<variable(file.step), variable(file.other)>>,
         groups |-> [i \in 1..Cardinality(children) |-> child]]

\* nc.Dataset(file, "r")
nc_Dataset(file) ==
    IF file.kind = "missing" THEN Raised("FileNotFoundError")
    ELSE IF file.kind # "netcdf" THEN Raised("OSError")
    ELSE Returned(DatasetTree(file))

\* isinstance(e, OSError)
IsOSError(e) == e \in {"OSError", "FileNotFoundError"}

RECURSIVE FilterWorkable(_, _, _)
\* stitchee/file_ops.py: the loop of validate_workable_files; every
\* exception is caught and the file skipped
FilterWorkable(fsys, files, workable_files) ==
    IF files = <<>> THEN workable_files
    ELSE LET file == Head(files)
             dataset == nc_Dataset(fsys[file])
         IN  IF dataset.err = "none" /\ ~is_file_empty_stitchee(dataset.val)
             THEN FilterWorkable(fsys, Tail(files), Append(workable_files, file))
             ELSE FilterWorkable(fsys, Tail(files), workable_files)

\* a filter that puts the first file back when none is workable
validate_workable_files_readmitting(fsys, files) ==
    LET workable_files == FilterWorkable(fsys, files, <<>>)
    IN  IF Len(workable_files) = 0 /\ Len(files) > 0
        THEN Returned(<< <<files[1]>>, 1 >>)
        ELSE Returned(<<workable_files, Len(workable_files)>>)

\* stitchee/file_ops.py
validate_workable_files_stitchee(fsys, files) ==
    LET workable_files == FilterWorkable(fsys, files, <<>>)
    IN  Returned(<<workable_files, Len(workable_files)>>)

RECURSIVE FilterWorkableConcatenator(_, _, _)
\* concatenator/file_ops.py: the loop of validate_workable_files; only
\* OSError is caught
FilterWorkableConcatenator(fsys, files, workable_files) ==
    IF files = <<>> THEN Returned(workable_files)
    ELSE LET file == Head(files)
             dataset == nc_Dataset(fsys[file])
         IN  IF dataset.err = "none"
             THEN IF is_file_empty_concatenator(dataset.val) = FALSE
                  THEN FilterWorkableConcatenator(fsys, Tail(files),
                                                  Append(workable_files, file))
                  ELSE FilterWorkableConcatenator(fsys, Tail(files), workable_files)
             ELSE IF IsOSError(dataset.err)
             THEN FilterWorkableConcatenator(fsys, Tail(files), workable_files)
             ELSE Raised(dataset.err)

\* concatenator/file_ops.py
validate_workable_files_concatenator(fsys, files) ==
    LET filtered == FilterWorkableConcatenator(fsys, files, <<>>)
    IN  IF filtered.err # "none" THEN filtered
        ELSE LET workable_files ==
                     IF Len(filtered.val) = 0 /\ Len(files) > 0
                     THEN Append(filtered.val, files[1])
                     ELSE filtered.val
             IN  Returned(<<workable_files, Len(workable_files)>>)

(***************************************************************************)
(* stitchee/file_ops.py: the path checks                                   *)
(***************************************************************************)
\* _get_list_of_filepaths_from_file: reading a file that is not UTF-8 text
\* fails, and the failure is raised as ValueError
get_list_of_filepaths_from_file(file) ==
    IF file.kind = "text" THEN Returned(file.entries) ELSE Raised("ValueError")

\* validate_input_path
validate_input_path(fsys, suffix, path_or_paths) ==
    IF path_or_paths = <<>> THEN Raised("ValueError")
    ELSE IF Len(path_or_paths) > 1 THEN Returned(path_or_paths)
    ELSE LET path == path_or_paths[1]
         IN  IF is_dir(fsys[path]) THEN Returned(fsys[path].entries)
             ELSE IF is_file(fsys[path])
             THEN IF suffix[path] \in NETCDF_EXTENSIONS
                  THEN Returned(<<path>>)
                  ELSE get_list_of_filepaths_from_file(fsys[path])
             ELSE Raised("ValueError")

\* an outcome that carries the file system it leaves behind
Effect(err, val, fsys) == [err |-> err, val |-> val, fs |-> fsys]

\* a check that removes the file it then refuses to overwrite
validate_output_path_removing(fsys, filepath, overwrite) ==
    IF is_dir(fsys[filepath]) THEN Effect("TypeError", <<>>, fsys)
    ELSE IF is_file(fsys[filepath])
    THEN Effect(IF overwrite THEN "none" ELSE "FileExistsError",
                IF overwrite THEN filepath ELSE <<>>,
                [fsys EXCEPT ![filepath] = Missing])
    ELSE Effect("none", filepath, fsys)

\* validate_output_path
validate_output_path(fsys, filepath, overwrite) ==
    IF is_dir(fsys[filepath]) THEN Effect("TypeError", <<>>, fsys)
    ELSE IF is_file(fsys[filepath]) /\ ~overwrite
    THEN Effect("FileExistsError", <<>>, fsys)
    ELSE IF is_file(fsys[filepath]) /\ overwrite
    THEN Effect("none", filepath, [fsys EXCEPT ![filepath] = Missing])
    ELSE Effect("none", filepath, fsys)

\* shutil.copyfile(src, dst)
shutil_copyfile(fsys, src, dst) ==
    IF src = dst /\ fsys[src].kind # "missing" THEN Effect("SameFileError", <<>>, fsys)
    ELSE IF fsys[src].kind = "missing" THEN Effect("FileNotFoundError", <<>>, fsys)
    ELSE IF is_dir(fsys[src]) \/ is_dir(fsys[dst])
    THEN Effect("IsADirectoryError", <<>>, fsys)
    ELSE Effect("none", dst, [fsys EXCEPT ![dst] = fsys[src]])

(***************************************************************************)
(* stitchee/concatenate.py                                                 *)
(***************************************************************************)
\* a check that lets every method and dimension pass
validate_concat_method_and_dim_skipped(method, dim) == Returned(<<>>)

\* validate_concat_method_and_dim, called by _create_concat_function
validate_concat_method_and_dim(method, dim) ==
    IF method \notin SUPPORTED_CONCAT_METHODS THEN Raised("ValueError")
    ELSE IF method = "xarray-concat" /\ dim = "" THEN Raised("ValueError")
    ELSE Returned(<<>>)

\* xr.open_datatree(filepath)
xr_open_datatree(file) ==
    IF file.kind = "missing" THEN Raised("FileNotFoundError")
    ELSE IF file.kind # "netcdf" THEN Raised("ValueError")
    ELSE Returned(file)

\* a check that takes every file's keys as they come
check_dataset_consistency_unchecked(datatree, expected_keys, file_num, filepath) ==
    Returned(<<datatree.keys>>)

\* _check_dataset_consistency; expected_keys is <<>> for None, else <<keys>>;
\* the KeyError carries what its message names
check_dataset_consistency(datatree, expected_keys, file_num, filepath) ==
    LET current_keys == datatree.keys
    IN  IF expected_keys = <<>> THEN Returned(<<current_keys>>)
        ELSE IF current_keys # expected_keys[1]
        THEN [err |-> "KeyError",
              val |-> [file_num |-> file_num, filepath |-> filepath,
                       expected |-> expected_keys[1], got |-> current_keys,
                       differences |-> (current_keys \ expected_keys[1])
                                           \cup (expected_keys[1] \ current_keys)]]
        ELSE Returned(expected_keys)

\* a sort value that is always the index
get_sort_value_index(datatree, sorting, index) == Returned(index)

\* a sort value that is the first value of the concat dimension when no
\* sorting variable is given
get_sort_value_of_concat_dim(datatree, sorting, index) ==
    IF sorting # "" /\ sorting # "step" THEN Raised("KeyError")
    ELSE IF Len(datatree.step) = 0 THEN Returned(index)
    ELSE Returned(datatree.step[1])

\* _get_sort_value: the index, or the first value of the sorting variable
get_sort_value(datatree, sorting, index) ==
    IF sorting = "" THEN Returned(index)
    ELSE IF sorting # "step" THEN Raised("KeyError")
    ELSE IF Len(datatree.step) = 0 THEN Raised("IndexError")
    ELSE Returned(datatree.step[1])

RECURSIVE insort(_, _)
\* one item put into a sorted list, behind the items that do not compare
\* greater
insort(sorted_list, item) ==
    IF sorted_list = <<>> THEN <<item>>
    ELSE IF item.sort_value < Head(sorted_list).sort_value
    THEN <<item>> \o sorted_list
    ELSE <<Head(sorted_list)>> \o insort(Tail(sorted_list), item)

\* a sort that leaves the list as it is
sorted_not(loaded_data, trees_comparable) == Returned(loaded_data)

RECURSIVE sorted_by_value(_)
\* the list in ascending order of the sort values, items of equal value in
\* the order of the list
sorted_by_value(loaded_data) ==
    IF loaded_data = <<>> THEN <<>>
    ELSE insort(sorted_by_value(SubSeq(loaded_data, 1, Len(loaded_data) - 1)),
                loaded_data[Len(loaded_data)])

\* two items of the list have the same sort value
has_equal_sort_values(loaded_data) ==
    \E i, j \in 1..Len(loaded_data) :
        i # j /\ loaded_data[i].sort_value = loaded_data[j].sort_value

\* sorted(loaded_data) on the (sort_value, datatree) tuples: tuples whose
\* sort values are equal are compared by their datatrees, and every sort
\* compares the items that end up next to each other.  Whether two
\* DataTree objects can be compared is the xarray library's matter: where
\* they can (trees_comparable), trees of the same structure compare as
\* equal and the sort is stable; where they cannot, the comparison raises.
sorted(loaded_data, trees_comparable) ==
    IF has_equal_sort_values(loaded_data) /\ ~trees_comparable
    THEN Raised("TypeError")
    ELSE Returned(sorted_by_value(loaded_data))

\* an outcome that carries the files opened with xr.open_datatree
Loaded(err, val, opened) == [err |-> err, val |-> val, opened |-> opened]

RECURSIVE LoadLoop(_, _, _, _, _, _)
\* the loop of _load_and_sort_datatrees from file number i on
LoadLoop(fsys, input_files, sorting, i, expected_keys, loaded_data) ==
    IF i > Len(input_files)
    THEN Loaded("none", loaded_data, input_files)
    ELSE LET opened == SubSeq(input_files, 1, i)
             datatree == xr_open_datatree(fsys[input_files[i]])
         IN  IF datatree.err # "none" THEN Loaded(datatree.err, <<>>, opened)
             ELSE LET keys == check_dataset_consistency(datatree.val, expected_keys,
                                                        i, input_files[i])
                      sort_value == get_sort_value(datatree.val, sorting, i - 1)
                  IN  IF keys.err # "none" THEN Loaded(keys.err, keys.val, opened)
                      ELSE IF sort_value.err # "none"
                      THEN Loaded(sort_value.err, <<>>, opened)
                      ELSE LoadLoop(fsys, input_files, sorting, i + 1, keys.val,
                                    Append(loaded_data,
                                           [sort_value |-> sort_value.val,
                                            datatree |-> datatree.val]))

\* _load_and_sort_datatrees
load_and_sort_datatrees(fsys, input_files, sorting, trees_comparable) ==
    LET loaded == LoadLoop(fsys, input_files, sorting, 1, <<>>, <<>>)
    IN  IF loaded.err # "none" THEN loaded
        ELSE LET ordered == sorted(loaded.val, trees_comparable)
             IN  IF ordered.err # "none" THEN Loaded(ordered.err, <<>>, loaded.opened)
                 ELSE Loaded("none",
                             [i \in 1..Len(ordered.val) |-> ordered.val[i].datatree],
                             loaded.opened)

RECURSIVE StackStep(_)
\* the "step" values of the datasets, one dataset after the other
StackStep(datasets) ==
    IF datasets = <<>> THEN <<>>
    ELSE Head(datasets).step \o StackStep(Tail(datasets))

RECURSIVE StackOther(_)
\* the values of the other variable, one dataset after the other
StackOther(datasets) ==
    IF datasets = <<>> THEN <<>>
    ELSE Head(datasets).other \o StackOther(Tail(datasets))

\* a concatenation that keeps the first dataset only
xr_concat_first(datasets) == Returned(datasets[1])

\* xr.concat(datasets, dim="step", data_vars="minimal", coords="minimal")
xr_concat(datasets) ==
    Returned([NetCDF(datasets[1].keys, StackStep(datasets), StackOther(datasets), FALSE)
                  EXCEPT !.history_json = datasets[1].history_json])

IsStrictlyMonotonic(values) ==
    \/ \A i \in 1..(Len(values) - 1) : values[i] < values[i + 1]
    \/ \A i \in 1..(Len(values) - 1) : values[i] > values[i + 1]

\* xr.combine_by_coords(datasets): the datasets are ordered by their
\* coordinate values, and a result without a monotonic index is refused
xr_combine_by_coords(datasets) ==
    IF \E i \in 1..Len(datasets) : Len(datasets[i].step) = 0
    THEN Raised("ValueError")
    ELSE LET ordered ==
                 sorted_by_value([i \in 1..Len(datasets) |->
                            [sort_value |-> datasets[i].step[1], datatree |-> datasets[i]]])
             combined == [i \in 1..Len(ordered) |-> ordered[i].datatree]
         IN  IF IsStrictlyMonotonic(StackStep(combined))
             THEN Returned([NetCDF(datasets[1].keys, StackStep(combined),
                                   StackOther(combined), FALSE)
                               EXCEPT !.history_json = datasets[1].history_json])
             ELSE Raised("ValueError")

\* _concatenate_datatrees with the function _create_concat_function built
concatenate_datatrees(datatree_list, method) ==
    IF datatree_list = <<>> THEN Raised("ValueError")
    ELSE IF method = "xarray-concat" THEN xr_concat(datatree_list)
    ELSE xr_combine_by_coords(datatree_list)

\* _finalize_output: the history is set when one is given (<<history>>,
\* <<>> for None) and output_tree.to_netcdf(output_file) writes the file;
\* a write that fails after the file was created leaves a partial file
finalize_output(fsys, output_tree, output, history, write_ok) ==
    LET tree == IF history # <<>> THEN [output_tree EXCEPT !.history_json = history]
                ELSE output_tree
    IN  IF write_ok THEN Effect("none", <<>>, [fsys EXCEPT ![output] = tree])
        ELSE Effect("OSError", <<>>, [fsys EXCEPT ![output] = PartialFile])

(***************************************************************************)
(* The file operations of a call, in the order they happen                 *)
(***************************************************************************)
Event(op, path) == [op |-> op, path |-> path]

\* one event per path of the list that a file can be opened at
EventsAt(op, fsys, paths) ==
    LET existing == SelectSeq(paths, LAMBDA path : is_file(fsys[path]))
    IN  [i \in 1..Len(existing) |-> Event(op, existing[i])]

\* what validate_input_path reads: a directory's listing, or the text of a
\* single file without a netCDF extension
input_path_events(fsys, suffix, path_or_paths) ==
    IF Len(path_or_paths) # 1 THEN <<>>
    ELSE LET path == path_or_paths[1]
         IN  IF is_dir(fsys[path]) THEN <<Event("iterdir", path)>>
             ELSE IF is_file(fsys[path]) /\ suffix[path] \notin NETCDF_EXTENSIONS
             THEN <<Event("open", path)>>
             ELSE <<>>

\* what validate_output_path does to the output path
output_path_events(fsys, filepath, overwrite) ==
    IF is_file(fsys[filepath]) /\ overwrite THEN <<Event("os.remove", filepath)>>
    ELSE <<>>

\* the outcome of concatenate(): the exception or the returned string, the
\* file system it leaves, the files opened with xr.open_datatree, what the
\* exception names, and the file operations in their order
Outcome(err, val, fsys, opened, detail, log) ==
    [err |-> err, val |-> val, fs |-> fsys, opened |-> opened,
     detail |-> detail, log |-> log]

\* concatenate; history is <<>> for None, write_ok whether to_netcdf
\* succeeds, trees_comparable whether DataTree objects can be compared
concatenate(fsys, suffix, files, output, method, dim, sorting, overwrite, history, write_ok, trees_comparable) ==
    IF files = <<>> THEN Outcome("ValueError", <<>>, fsys, <<>>, <<>>, <<>>)
    ELSE
    LET resolved == validate_input_path(fsys, suffix, files)
        log_1 == input_path_events(fsys, suffix, files)
    IN  IF resolved.err # "none"
        THEN Outcome(resolved.err, <<>>, fsys, <<>>, <<>>, log_1)
        ELSE IF validate_concat_method_and_dim(method, dim).err # "none"
        THEN Outcome(validate_concat_method_and_dim(method, dim).err, <<>>, fsys,
                     <<>>, <<>>, log_1)
        ELSE
        LET workable == validate_workable_files_stitchee(fsys, files).val
            input_files == workable[1]
            num_input_files == workable[2]
            log_2 == log_1 \o EventsAt("nc.Dataset", fsys, files)
        IN  IF num_input_files = 0 THEN Outcome("none", <<>>, fsys, <<>>, <<>>, log_2)
            ELSE
            LET validated == validate_output_path(fsys, output, overwrite)
                log_3 == log_2 \o output_path_events(fsys, output, overwrite)
            IN  IF validated.err # "none"
                THEN Outcome(validated.err, <<>>, validated.fs, <<>>, <<>>, log_3)
                ELSE IF num_input_files = 1
                THEN LET copied == shutil_copyfile(validated.fs, input_files[1],
                                                   validated.val)
                         log_4 == log_3 \o <<Event("copyfile", input_files[1])>>
                     IN  IF copied.err # "none"
                         THEN Outcome(copied.err, <<>>, copied.fs, <<>>, <<>>, log_4)
                         ELSE Outcome("none", <<validated.val>>, copied.fs, <<>>, <<>>,
                                      log_4)
                ELSE
                LET datatree_list ==
                        load_and_sort_datatrees(validated.fs, input_files, sorting,
                                                trees_comparable)
                    log_4 == log_3 \o EventsAt("xr.open_datatree", validated.fs,
                                               datatree_list.opened)
                IN  IF datatree_list.err # "none"
                    THEN Outcome(datatree_list.err, <<>>, validated.fs,
                                 datatree_list.opened, datatree_list.val, log_4)
                    ELSE
                    LET output_tree == concatenate_datatrees(datatree_list.val, method)
                    IN  IF output_tree.err # "none"
                        THEN Outcome(output_tree.err, <<>>, validated.fs,
                                     datatree_list.opened, <<>>, log_4)
                        ELSE
                        LET written == finalize_output(validated.fs, output_tree.val,
                                                       validated.val, history, write_ok)
                            log_5 == log_4 \o <<Event("to_netcdf", validated.val)>>
                        IN  IF written.err # "none"
                            THEN Outcome(written.err, <<>>, written.fs,
                                         datatree_list.opened, <<>>, log_5)
                            ELSE Outcome("none", <<validated.val>>, written.fs,
                                         datatree_list.opened, <<>>, log_5)

(***************************************************************************)
(* The calls explored.  Path 0 is a path of its own for the output; the    *)
(* inputs are the paths 1..n, in the order of the input list.              *)
(***************************************************************************)
Input(suffix, file) == [suffix |-> suffix, file |-> file]

\* input files of the data cases
Granules ==
    {Input(".nc", GranuleA), Input(".nc", GranuleB), Input(".nc", GranuleC),
     Input(".nc", GranuleD), Input(".nc", GranuleE), Input(".nc", GranuleG),
     Input(".nc", GranuleH), Input(".nc", Garbage)}

\* input paths of the argument and file-system cases
InputPaths ==
    {Input(".nc", Missing), Input(".nc", Garbage), Input(".h5", Garbage),
     Input(".txt", TextFile(<<>>)), Input("", Directory(<<>>)),
     Input(".nc", GranuleE), Input(".h5", GranuleE),
     Input(".nc", GranuleA), Input(".nc", GranuleB), Input(".nc", GranuleG)}

\* what the output path may hold before the call
OutputFiles == {Missing, GranuleC, Directory(<<>>)}

NoCall ==
    [err |-> "not called", val |-> <<>>, opened |-> <<>>, detail |-> <<>>,
     log |-> <<>>, open_handles |-> {}]

\* the file system and the input list made of the inputs given
InitFiles(n, inputs, output_content) ==
    /\ fs = [path \in 0..n |-> IF path = 0 THEN output_content ELSE inputs[path].file]
    /\ fs_at_call = fs
    /\ path_suffix = [path \in 0..n |-> IF path = 0 THEN ".nc" ELSE inputs[path].suffix]
    /\ files_to_concat = [i \in 1..n |-> i]

\* data cases: valid arguments, a fresh output path, up to MaxFiles granules
InitConcat ==
    /\ \E n \in 0..MaxFiles : \E inputs \in [1..n -> Granules] :
           InitFiles(n, inputs, Missing)
    /\ output_file = 0
    /\ concat_method \in SUPPORTED_CONCAT_METHODS
    /\ concat_dim = "step"
    /\ sorting_variable \in {"", "step"}
    /\ overwrite_output_file = FALSE
    /\ history_to_append = <<>>
    /\ concat_result = NoCall
    /\ workable_stitchee = NoResult
    /\ workable_concatenator = NoResult
    /\ path_check = [function |-> "none", err |-> "not called", val |-> <<>>]
    /\ exit_status = <<>>
    /\ IdleCoord
    /\ IdleGroup
    /\ IdleEmpty

\* argument and file-system cases: up to MaxPaths input paths of any kind,
\* any arguments, the output path fresh, taken, or one of the inputs
InitCall ==
    /\ \E n \in 0..MaxPaths : \E inputs \in [1..n -> InputPaths] :
         \E output_content \in OutputFiles :
           /\ InitFiles(n, inputs, output_content)
           /\ output_file \in 0..n
           /\ output_file # 0 => output_content = Missing
    /\ concat_method \in SUPPORTED_CONCAT_METHODS \cup {"nearest"}
    /\ concat_dim \in {"", "step"}
    /\ sorting_variable = ""
    /\ overwrite_output_file \in BOOLEAN
    /\ history_to_append = <<>>
    /\ concat_result = NoCall
    /\ workable_stitchee = NoResult
    /\ workable_concatenator = NoResult
    /\ path_check = [function |-> "none", err |-> "not called", val |-> <<>>]
    /\ exit_status = <<>>
    /\ IdleCoord
    /\ IdleGroup
    /\ IdleEmpty

\* the handles a call leaves open: nc.Dataset is used in a with block;
\* the datatrees of xr.open_datatree are never closed by the code, each is
\* closed when the garbage collector frees it, before or after the return
OpenHandlesLeft(outcome) ==
    SUBSET {path \in SeqToSet(outcome.opened) : is_file(fs[path])}

\* one call of concatenate(); whether the write succeeds, whether the
\* library can compare two datatrees and what the garbage collector has
\* freed by the return are not the program's choice
Concatenate ==
    /\ concat_result.err = "not called"
    /\ \E write_ok, trees_comparable \in BOOLEAN :
         \E outcome \in {concatenate(fs, path_suffix, files_to_concat, output_file,
                                     concat_method, concat_dim, sorting_variable,
                                     overwrite_output_file, history_to_append,
                                     write_ok, trees_comparable)} :
             /\ \E open_handles \in OpenHandlesLeft(outcome) :
                   concat_result' = [err |-> outcome.err, val |-> outcome.val,
                                     opened |-> outcome.opened,
                                     detail |-> outcome.detail, log |-> outcome.log,
                                     open_handles |-> open_handles]
             /\ fs' = outcome.fs
    /\ UNCHANGED <<fs_at_call, path_suffix, files_to_concat, output_file,
                   concat_method, concat_dim, sorting_variable, overwrite_output_file,
                   history_to_append, workable_stitchee, workable_concatenator,
                   path_check, exit_status>>
    /\ UNCHANGED coordVars
    /\ UNCHANGED groupVars
    /\ UNCHANGED emptyVars

NextConcat == Concatenate

SpecConcat == InitConcat /\ [][NextConcat]_vars

SpecCall == InitCall /\ [][NextConcat]_vars

(***************************************************************************)
(* Properties of concatenate()                                             *)
(***************************************************************************)
\* a file that is netCDF and holds at least one value that is not masked
IsWorkable(file) == file.kind = "netcdf" /\ ~file.masked /\ Len(file.step) > 0

\* the workable input paths, in the order of the input list
WorkableInputs == SelectSeq(files_to_concat, LAMBDA path : IsWorkable(fs_at_call[path]))

RECURSIVE SumOfSizes(_)
SumOfSizes(paths) ==
    IF paths = <<>> THEN 0
    ELSE Len(fs_at_call[Head(paths)].step) + SumOfSizes(Tail(paths))

Called == concat_result.err # "not called"

\* concatenate() returned the output path
ReturnedOutput == concat_result.err = "none" /\ concat_result.val = <<output_file>>

\* C3: with xarray-concat and two or more workable inputs, the size of the
\* concat dimension in the output is the sum of that dimension's sizes over
\* all workable inputs.
C3_ConcatLengthIsSum ==
    (ReturnedOutput /\ concat_method = "xarray-concat" /\ Len(WorkableInputs) >= 2) =>
        Len(fs[output_file].step) = SumOfSizes(WorkableInputs)

\* C3 witness: a concatenation of two or more workable files and one empty
\* file whose dimension has a size of its own
C3_Witness ==
    /\ ReturnedOutput
    /\ concat_method = "xarray-concat"
    /\ Len(WorkableInputs) >= 2
    /\ \E i \in 1..Len(files_to_concat) : fs_at_call[files_to_concat[i]] = GranuleE
    /\ Len(fs[output_file].step) > 0

\* the orders of the paths in which the first "step" value never decreases
AscendingOrders(paths) ==
    {order \in [1..Len(paths) -> 1..Len(paths)] :
        /\ \A i, j \in 1..Len(paths) : i # j => order[i] # order[j]
        /\ \A i \in 1..(Len(paths) - 1) :
              fs_at_call[paths[order[i]]].step[1] <= fs_at_call[paths[order[i + 1]]].step[1]}

\* the files of the paths, taken in the order given
InOrder(paths, order) == [i \in 1..Len(paths) |-> fs_at_call[paths[order[i]]]]

\* C4: with a sorting variable, the output is the workable inputs stacked in
\* ascending order of each file's first value of the sorting variable,
\* whatever the order of the input list, every other variable in the same
\* file order; inputs with step [9,10,11], [12,13,14], [6,7,8] give step
\* [6,7,8,9,10,11,12,13,14].
C4_StackedByFirstSortValue ==
    (ReturnedOutput /\ sorting_variable = "step" /\ Len(WorkableInputs) >= 2) =>
        /\ \E order \in AscendingOrders(WorkableInputs) :
              /\ fs[output_file].step = StackStep(InOrder(WorkableInputs, order))
              /\ fs[output_file].other = StackOther(InOrder(WorkableInputs, order))
        /\ (/\ Len(files_to_concat) = 3
            /\ fs_at_call[1] = GranuleA
            /\ fs_at_call[2] = GranuleB
            /\ fs_at_call[3] = GranuleC)
           => fs[output_file].step = <<6, 7, 8, 9, 10, 11, 12, 13, 14>>

\* C4 witness: the three files of the example, concatenated
C4_Witness ==
    /\ ReturnedOutput
    /\ sorting_variable = "step"
    /\ concat_method = "xarray-concat"
    /\ Len(files_to_concat) = 3
    /\ fs_at_call[1] = GranuleA
    /\ fs_at_call[2] = GranuleB
    /\ fs_at_call[3] = GranuleC
    /\ fs[output_file].step = <<6, 7, 8, 9, 10, 11, 12, 13, 14>>

IsNonDecreasing(values) == \A i \in 1..(Len(values) - 1) : values[i] <= values[i + 1]

\* C5 as stated: whenever a sorting variable is supplied, the
\* concat-dimension values of the output are non-decreasing from the first
\* element to the last, for every set of workable inputs.
C5_OutputNonDecreasing ==
    (ReturnedOutput /\ sorting_variable = "step" /\ Len(WorkableInputs) >= 2) =>
        IsNonDecreasing(fs[output_file].step)

\* no value of one file lies strictly between two values of another, and
\* each file's values are non-decreasing
RangesDoNotOverlap(paths) ==
    /\ \A i \in 1..Len(paths) : IsNonDecreasing(fs_at_call[paths[i]].step)
    /\ \A i, j \in 1..Len(paths) :
          i # j =>
              LET a == fs_at_call[paths[i]].step
                  b == fs_at_call[paths[j]].step
              IN  a[Len(a)] <= b[1] \/ b[Len(b)] <= a[1]

\* C5 amended: whenever a sorting variable is supplied, the files are
\* stacked in non-decreasing order of their first value; the values of the
\* whole output are non-decreasing when, in addition, each workable
\* input's values are non-decreasing and the inputs' value ranges do not
\* overlap.
C5_NonDecreasingWhenRangesDisjoint ==
    (/\ ReturnedOutput
     /\ sorting_variable = "step"
     /\ Len(WorkableInputs) >= 2
     /\ RangesDoNotOverlap(WorkableInputs))
        => IsNonDecreasing(fs[output_file].step)

\* C5 witness: files given out of order, with disjoint ranges, concatenated
C5_Witness ==
    /\ ReturnedOutput
    /\ sorting_variable = "step"
    /\ concat_method = "xarray-concat"
    /\ Len(WorkableInputs) >= 2
    /\ RangesDoNotOverlap(WorkableInputs)
    /\ fs_at_call[WorkableInputs[1]].step[1] > fs_at_call[WorkableInputs[2]].step[1]

\* the workable inputs in the order of the input list
InInputOrder(paths) == [i \in 1..Len(paths) |-> fs_at_call[paths[i]]]

HasEqualSortKeys ==
    /\ sorting_variable = "step"
    /\ \E i, j \in 1..Len(WorkableInputs) :
          /\ i # j
          /\ fs_at_call[WorkableInputs[i]].step[1] = fs_at_call[WorkableInputs[j]].step[1]

\* the ascending orders that keep inputs of equal first value in the order
\* of the input list
StableOrders(paths) ==
    {order \in AscendingOrders(paths) :
        \A i, j \in 1..Len(paths) :
            (i < j /\ fs_at_call[paths[order[i]]].step[1] = fs_at_call[paths[order[j]]].step[1])
                => order[i] < order[j]}

\* the workable inputs all have the groups of the first one
SameGroups == \A i \in 1..Len(WorkableInputs) :
    fs_at_call[WorkableInputs[i]].keys = fs_at_call[WorkableInputs[1]].keys

InputPathAccepted ==
    \/ Len(files_to_concat) > 1
    \/ /\ Len(files_to_concat) = 1
       /\ LET file == fs_at_call[files_to_concat[1]]
              suffix == path_suffix[files_to_concat[1]]
          IN  \/ file.kind = "directory"
              \/ file.kind \in {"garbage", "netcdf"} /\ suffix \in {".nc", ".nc4", ".netcdf"}
              \/ file.kind = "text"

\* the method is supported and has the dimension it needs
MethodAccepted ==
    \/ concat_method = "xarray-concat" /\ concat_dim # ""
    \/ concat_method = "xarray-combine"

\* the output path is free, or holds a file that may be overwritten
OutputPathAccepted ==
    \/ fs_at_call[output_file].kind = "missing"
    \/ fs_at_call[output_file].kind \in {"text", "garbage", "netcdf"} /\ overwrite_output_file

\* C6: when exactly one workable file remains after filtering (the
\* arguments and the output path being accepted), concatenate writes at the
\* output path a copy identical to that input file and returns the output
\* path, without loading, sorting, concatenating or rewriting anything.
C6_SingleFileIsCopied ==
    (/\ Called
     /\ InputPathAccepted
     /\ MethodAccepted
     /\ OutputPathAccepted
     /\ Len(WorkableInputs) = 1)
        => /\ concat_result.err = "none"
           /\ concat_result.val = <<output_file>>
           /\ concat_result.opened = <<>>
           /\ fs[output_file] = fs_at_call[WorkableInputs[1]]

InitWorkable ==
    /\ \E n \in 0..MaxPaths : \E inputs \in [1..n -> InputPaths] :
           InitFiles(n, inputs, Missing)
    /\ output_file = 0
    /\ concat_method = ""
    /\ concat_dim = ""
    /\ sorting_variable = ""
    /\ overwrite_output_file = FALSE
    /\ history_to_append = <<>>
    /\ concat_result = NoCall
    /\ workable_stitchee = NoResult
    /\ workable_concatenator = NoResult
    /\ path_check = [function |-> "none", err |-> "not called", val |-> <<>>]
    /\ exit_status = <<>>
    /\ IdleCoord
    /\ IdleGroup
    /\ IdleEmpty

ValidateWorkableFilesStitchee ==
    /\ workable_stitchee = NoResult
    /\ workable_stitchee' = validate_workable_files_stitchee(fs, files_to_concat)
    /\ UNCHANGED <<fs, fs_at_call, path_suffix, files_to_concat, output_file,
                   concat_method, concat_dim, sorting_variable,
                   overwrite_output_file, history_to_append, concat_result, path_check,
                   exit_status, workable_concatenator>>
    /\ UNCHANGED coordVars
    /\ UNCHANGED groupVars
    /\ UNCHANGED emptyVars

ValidateWorkableFilesConcatenator ==
    /\ workable_concatenator = NoResult
    /\ workable_concatenator' = validate_workable_files_concatenator(fs, files_to_concat)
    /\ UNCHANGED <<fs, fs_at_call, path_suffix, files_to_concat, output_file,
                   concat_method, concat_dim, sorting_variable,
                   overwrite_output_file, history_to_append, concat_result, path_check,
                   exit_status, workable_stitchee>>
    /\ UNCHANGED coordVars
    /\ UNCHANGED groupVars
    /\ UNCHANGED emptyVars

NextWorkable == ValidateWorkableFilesStitchee \/ ValidateWorkableFilesConcatenator

SpecWorkable == InitWorkable /\ [][NextWorkable]_vars

\* what C8 says of one outcome of validate_workable_files
FirstFileReadmitted(outcome) ==
    outcome.err # "not called" =>
        /\ outcome.err = "none"
        /\ (Len(files_to_concat) > 0 /\ Len(WorkableInputs) = 0)
               => outcome.val = << <<files_to_concat[1]>>, 1 >>
        /\ outcome.val[2] = 0 => files_to_concat = <<>>

\* C8: validate_workable_files, given a non-empty list in which every file
\* is empty or unreadable, returns exactly the first file of the input list
\* with a count of 1; it returns a count of 0 only for an empty input list.
C8_FirstFileReadmitted ==
    /\ FirstFileReadmitted(workable_stitchee)
    /\ FirstFileReadmitted(workable_concatenator)

(***************************************************************************)
(* Order of validation and file access in concatenate()                    *)
(***************************************************************************)
\* the events of the log that open a file
FileOpenings(log) ==
    SelectSeq(log, LAMBDA event :
        event.op \in {"open", "nc.Dataset", "xr.open_datatree", "copyfile"})

\* the events of the log that open an input as a netCDF container or copy it
ContainerOpenings(log) ==
    SelectSeq(log, LAMBDA event :
        event.op \in {"nc.Dataset", "xr.open_datatree", "copyfile"})

\* an empty list, an unsupported method, or xarray-concat without dimension
ArgumentsRejected ==
    \/ files_to_concat = <<>>
    \/ concat_method \notin {"xarray-concat", "xarray-combine"}
    \/ concat_method = "xarray-concat" /\ concat_dim = ""

\* C11 as stated: concatenate raises ValueError for an empty file list, for
\* an unsupported concat method and for xarray-concat without concat_dim,
\* in each case before any file is opened and before the output path is
\* touched.
C11_ValueErrorBeforeAnyFileIsOpened ==
    (Called /\ ArgumentsRejected) =>
        /\ concat_result.err = "ValueError"
        /\ FileOpenings(concat_result.log) = <<>>
        /\ fs = fs_at_call

\* C11 amended: in each of the three cases concatenate raises ValueError
\* before any input is opened as a netCDF container and before the output
\* path is touched; a single input path without a netCDF extension has by
\* then been read as a list of paths by validate_input_path.
C11_ValueErrorBeforeAnyContainerIsOpened ==
    (Called /\ ArgumentsRejected) =>
        /\ concat_result.err = "ValueError"
        /\ ContainerOpenings(concat_result.log) = <<>>
        /\ \A i \in 1..Len(concat_result.log) :
              /\ concat_result.log[i].op \in {"open", "iterdir"}
              /\ Len(files_to_concat) = 1
              /\ concat_result.log[i].path = files_to_concat[1]
        /\ fs = fs_at_call

\* C11 witness: an unsupported method given with two workable inputs and a
\* taken output path that may be overwritten
C11_Witness ==
    /\ Called
    /\ concat_method = "nearest"
    /\ Len(WorkableInputs) = 2
    /\ fs_at_call[output_file] = GranuleC
    /\ overwrite_output_file
    /\ concat_result.err = "ValueError"

\* the output path is an existing directory, or an existing file that may
\* not be overwritten
BadOutputPath ==
    \/ fs_at_call[output_file].kind = "directory"
    \/ fs_at_call[output_file].kind \in {"text", "garbage", "netcdf"}
           /\ ~overwrite_output_file

\* C12: a bad output path (an existing file without the overwrite flag, or
\* an existing directory) makes concatenate raise before any input file has
\* been opened or read, whatever the input files contain.
C12_BadOutputPathRaisesBeforeInputsAreOpened ==
    (Called /\ ~ArgumentsRejected /\ InputPathAccepted /\ BadOutputPath) =>
        /\ concat_result.err \in {"FileExistsError", "TypeError"}
        /\ FileOpenings(concat_result.log) = <<>>

(***************************************************************************)
(* The path validators of both packages, each on its own                   *)
(***************************************************************************)
\* concatenator/file_ops.py: _get_list_of_filepaths_from_file, which lets
\* the decoding error through
get_list_of_filepaths_from_file_concatenator(file) ==
    IF file.kind = "text" THEN Returned(file.entries) ELSE Raised("UnicodeDecodeError")

\* concatenator/file_ops.py: validate_input_path
validate_input_path_concatenator(fsys, suffix, path_or_paths) ==
    IF Len(path_or_paths) > 1 THEN Returned(path_or_paths)
    ELSE IF Len(path_or_paths) = 1
    THEN LET directory_or_path == path_or_paths[1]
         IN  IF is_dir(fsys[directory_or_path])
             THEN Returned(fsys[directory_or_path].entries)
             ELSE IF is_file(fsys[directory_or_path])
             THEN IF suffix[directory_or_path] \in NETCDF_EXTENSIONS
                  THEN Returned(<<directory_or_path>>)
                  ELSE get_list_of_filepaths_from_file_concatenator(
                           fsys[directory_or_path])
             ELSE Raised("TypeError")
    ELSE Raised("TypeError")

\* concatenator/file_ops.py: validate_output_path
validate_output_path_concatenator(fsys, filepath, overwrite) ==
    IF is_file(fsys[filepath])
    THEN IF overwrite
         THEN Effect("none", filepath, [fsys EXCEPT ![filepath] = Missing])
         ELSE Effect("FileExistsError", <<>>, fsys)
    ELSE IF is_dir(fsys[filepath]) THEN Effect("TypeError", <<>>, fsys)
    ELSE Effect("none", filepath, fsys)

InitPaths ==
    /\ \E n \in 0..MaxPaths : \E inputs \in [1..n -> InputPaths] :
         \E output_content \in OutputFiles :
           /\ InitFiles(n, inputs, output_content)
           /\ output_file \in 0..n
    /\ concat_method = ""
    /\ concat_dim = ""
    /\ sorting_variable = ""
    /\ overwrite_output_file \in BOOLEAN
    /\ history_to_append = <<>>
    /\ concat_result = NoCall
    /\ workable_stitchee = NoResult
    /\ workable_concatenator = NoResult
    /\ path_check = [function |-> "none", err |-> "not called", val |-> <<>>]
    /\ exit_status = <<>>
    /\ IdleCoord
    /\ IdleGroup
    /\ IdleEmpty

\* what a path validator leaves unchanged besides the file system
PathCheckFrame ==
    /\ UNCHANGED <<fs_at_call, path_suffix, files_to_concat, output_file,
                   concat_method, concat_dim, sorting_variable,
                   overwrite_output_file, history_to_append, concat_result,
                   workable_stitchee, workable_concatenator, exit_status>>
    /\ UNCHANGED coordVars
    /\ UNCHANGED groupVars
    /\ UNCHANGED emptyVars

ValidateInputPathStitchee ==
    /\ path_check.function = "none"
    /\ LET result == validate_input_path(fs, path_suffix, files_to_concat)
       IN  path_check' = [function |-> "stitchee.validate_input_path",
                          err |-> result.err, val |-> result.val]
    /\ UNCHANGED fs
    /\ PathCheckFrame

ValidateInputPathConcatenator ==
    /\ path_check.function = "none"
    /\ LET result == validate_input_path_concatenator(fs, path_suffix, files_to_concat)
       IN  path_check' = [function |-> "concatenator.validate_input_path",
                          err |-> result.err, val |-> result.val]
    /\ UNCHANGED fs
    /\ PathCheckFrame

ValidateOutputPathStitchee ==
    /\ path_check.function = "none"
    /\ LET result == validate_output_path(fs, output_file, overwrite_output_file)
       IN  /\ path_check' = [function |-> "stitchee.validate_output_path",
                             err |-> result.err, val |-> result.val]
           /\ fs' = result.fs
    /\ PathCheckFrame

ValidateOutputPathConcatenator ==
    /\ path_check.function = "none"
    /\ LET result == validate_output_path_concatenator(fs, output_file,
                                                       overwrite_output_file)
       IN  /\ path_check' = [function |-> "concatenator.validate_output_path",
                             err |-> result.err, val |-> result.val]
           /\ fs' = result.fs
    /\ PathCheckFrame

NextPaths ==
    \/ ValidateInputPathStitchee
    \/ ValidateInputPathConcatenator
    \/ ValidateOutputPathStitchee
    \/ ValidateOutputPathConcatenator

SpecPaths == InitPaths /\ [][NextPaths]_vars

\* C13: every input path that does not exist is rejected with a validation
\* error by validate_input_path (of either package), whether the path is
\* given alone or inside a list of several paths.
C13_MissingInputPathRejected ==
    (/\ path_check.function \in {"stitchee.validate_input_path",
                                 "concatenator.validate_input_path"}
     /\ \E i \in 1..Len(files_to_concat) :
            fs_at_call[files_to_concat[i]].kind = "missing")
        => path_check.err \in {"ValueError", "TypeError"}

\* C14: validate_output_path (of either package) raises FileExistsError and
\* leaves the file in place when the path is an existing file and overwrite
\* is false, raises TypeError when the path is an existing directory, with
\* or without overwrite, and otherwise returns the resolved path.
C14_OutputPathValidated ==
    path_check.function \in {"stitchee.validate_output_path",
                             "concatenator.validate_output_path"}
        => LET before == fs_at_call[output_file]
           IN  IF before.kind = "directory"
               THEN path_check.err = "TypeError" /\ fs = fs_at_call
               ELSE IF before.kind # "missing" /\ ~overwrite_output_file
               THEN path_check.err = "FileExistsError" /\ fs = fs_at_call
               ELSE path_check.err = "none" /\ path_check.val = output_file

\* C14 witness: an existing file refused, and still there
C14_Witness ==
    /\ path_check.function = "stitchee.validate_output_path"
    /\ path_check.err = "FileExistsError"
    /\ fs[output_file] = GranuleC

(***************************************************************************)
(* Failures of concatenate after the filter                                *)
(***************************************************************************)
\* the workable inputs after the first whose group paths differ from the
\* first's
DifferingInputs ==
    LET workable == WorkableInputs
    IN  {i \in 2..Len(workable) :
            fs_at_call[workable[i]].keys # fs_at_call[workable[1]].keys}

\* the output path is none of the input paths
OutputIsNotAnInput ==
    \A i \in 1..Len(files_to_concat) : files_to_concat[i] # output_file

\* the call gets as far as loading: arguments and paths are accepted, two or
\* more workable files remain and none of them is the output path
ReachesLoading ==
    /\ Called
    /\ ~ArgumentsRejected
    /\ InputPathAccepted
    /\ OutputPathAccepted
    /\ OutputIsNotAnInput
    /\ Len(WorkableInputs) >= 2

C16_NoOutputFileAfterFailure ==
    (ReachesLoading /\ concat_result.err # "none") =>
        fs[output_file].kind = "missing"

\* C17: every input container opened by concatenate is closed by the time
\* it returns or re-raises.
C17_EveryOpenedInputIsClosed ==
    Called => concat_result.open_handles = {}

(***************************************************************************)
(* stitchee() of the concatenator package on an input file.  Each input is *)
(* opened with mode "r+" and flattened through that handle: what           *)
(* flatten_grouped_dataset does to the Python dicts (variables renamed,    *)
(* groups deleted) stays in memory, what it does through the netCDF        *)
(* library (renameDimension, createVariable) is in the file when the with  *)
(* block closes it.  The list holds one workable file, whose flat dataset  *)
(* xr.concat returns as it is.  No variable of the files explored has a    *)
(* repeated dimension: dup_vars of remove_duplicate_dims is empty, its     *)
(* second loop has nothing to rebuild and the dataset is returned as it is.*)
(***************************************************************************)
\* nc_dataset.renameDimension / item.renameDimension: the dimension stays
\* in its group, under its flattened name
renameDimension(d) ==
    [path |-> d.path, name |-> flat_dim_name(d.path, d.name), size |-> d.size]

\* a variable's dimensions follow the renaming
RenamedDimensions(dims) ==
    [i \in 1..Len(dims) |->
        [path |-> dims[i].path, name |-> flat_dim_name(dims[i].path, dims[i].name)]]

\* nc_dataset.createVariable(dim.name, datatype=np.int32, dimensions=(dim.name,))
createVariable(name) ==
    [path |-> <<>>, name |-> name, dims |-> <<[path |-> <<>>, name |-> name]>>]

\* the file after flatten_grouped_dataset(nc_dataset, ensure_all_dims_are_coords=True)
\* on a handle opened with "r+"
flattened_in_place(ds) ==
    [groups |-> ds.groups,
     dimensions |-> {renameDimension(d) : d \in ds.dimensions},
     variables |-> {[path |-> v.path, name |-> v.name,
                     dims |-> RenamedDimensions(v.dims)] : v \in ds.variables}
                   \cup {createVariable(n) : n \in TemporaryCoordinateVariables(ds)}]

\* the input files explored: a root and at most one group, a dimension in
\* either, one or two variables
InputFileNames == {<<"b">>, <<"d">>}

MaxInputVariables == 2

InputFileVariables(groups, dimensions) ==
    LET ds == [groups |-> groups, variables |-> {}, dimensions |-> dimensions]
    IN  UNION {{[path |-> p, name |-> n, dims |-> <<>>]} \cup
               {[path |-> p, name |-> n, dims |-> <<ResolveDim(ds, p, m)>>] :
                   m \in {x \in DimNames : VisibleDims(ds, p, x) # {}}}
               : p \in groups \cup {<<>>}, n \in InputFileNames}

InputFiles ==
    UNION {UNION {{[groups |-> groups, dimensions |-> dimensions, variables |-> variables] :
                      variables \in {vs \in SUBSET InputFileVariables(groups, dimensions) :
                          /\ Cardinality(vs) \in 1..MaxInputVariables
                          /\ \A x, y \in vs : (x.path = y.path /\ x.name = y.name) => x = y}}
                  : dimensions \in SUBSET {[path |-> p, name |-> <<"d">>, size |-> 2] :
                                              p \in groups \cup {<<>>}}}
           : groups \in {{}, {<< <<"a">> >>}}}

InitInPlace ==
    /\ input_file \in InputFiles
    /\ input_file_at_start = input_file
    /\ stitchee_runs = <<>>
    /\ IdleCleanup
    /\ nc_dataset = EmptyDataset
    /\ flat_dataset = [variables |-> {}, dimensions |-> {}, coord_vars |-> {}]
    /\ output_dataset = [groups |-> {}, variables |-> {}, dimensions |-> {}, err |-> "none"]
    /\ group_pc = "idle"
    /\ IdleCoord
    /\ IdleEmpty
    /\ IdleConcat

\* stitchee([input], output_file)
Stitchee ==
    /\ Len(stitchee_runs) < MaxRuns
    /\ LET flat == flatten_grouped_dataset(input_file)
       IN  /\ \E pick \in SizesFound(flat) :
                stitchee_runs' = Append(stitchee_runs,
                                        [flat_dataset |-> flat,
                                         output |-> regroup_flattened_dataset(flat, pick)])
           /\ input_file' = flattened_in_place(input_file)
    /\ UNCHANGED <<input_file_at_start, nc_dataset, flat_dataset, output_dataset, group_pc,
                   cleanup_input, cleanup_result>>
    /\ UNCHANGED coordVars
    /\ UNCHANGED emptyVars
    /\ UNCHANGED concatVars

NextInPlace == Stitchee

SpecInPlace == InitInPlace /\ [][NextInPlace]_vars

\* C18: the flatten, concatenate and regroup pipeline never changes an
\* input file: after a run every input file has the same groups, dimension
\* names, variable names and data as before, so a second run on the same
\* inputs behaves like the first.
C18_InputFileUnchanged ==
    /\ input_file = input_file_at_start
    /\ Len(stitchee_runs) >= 2 => stitchee_runs[2] = stitchee_runs[1]

(***************************************************************************)
(* history_json and the command line.  The attribute is a JSON text; a     *)
(* file without the attribute has history_json = <<>>.  Of a record, the   *)
(* program, the parameters and derived_from are kept (the schema, the      *)
(* version and the reference are fixed texts, date_time is the clock).     *)
(***************************************************************************)
\* json.dumps and json.loads: the text of a document, and its value back
json_dumps(value) == [text |-> "json", value |-> value]

json_loads(text) == text.value

\* a record some other program left in an input
HistoryRecord(id) == [program |-> "other", parameters |-> <<>>, derived_from |-> <<id>>]

WithHistory(file, records) == [file EXCEPT !.history_json = <<json_dumps(records)>>]

\* retrieve_history; extending a list by the {} of a file without the
\* attribute adds nothing
retrieve_history(dataset) ==
    IF dataset.history_json = <<>> THEN <<>> ELSE json_loads(dataset.history_json[1])

\* construct_history
construct_history(input_files, granule_urls) ==
    [program |-> "stitchee", parameters |-> input_files, derived_from |-> granule_urls]

\* the loop of collect_history: a file that cannot be opened is skipped
RECURSIVE GatherHistory(_, _)
GatherHistory(fsys, input_files) ==
    IF input_files = <<>> THEN <<>>
    ELSE (IF nc_Dataset(fsys[Head(input_files)]).err = "none"
          THEN retrieve_history(fsys[Head(input_files)]) ELSE <<>>)
         \o GatherHistory(fsys, Tail(input_files))

\* a history that forgets what the inputs held
collect_history_only_new(fsys, input_files) ==
    json_dumps(<<construct_history(input_files, input_files)>>)

\* collect_history
collect_history(fsys, input_files) ==
    json_dumps(Append(GatherHistory(fsys, input_files),
                      construct_history(input_files, input_files)))

\* the status the process ends with: sys.exit(1) after any exception
Run(exit, outcome, history) ==
    [exit |-> IF outcome.err = "none" THEN 0 ELSE exit, outcome |-> outcome,
     history |-> history]

\* run_concatenate: _validate_args, collect_history, concatenate; any
\* exception ends in sys.exit(1)
run_concatenate(fsys, suffix, input, output_path, method, dim, sorting, overwrite, write_ok, trees_comparable) ==
    LET input_files == validate_input_path(fsys, suffix, input)
        log_1 == input_path_events(fsys, suffix, input)
        validated == validate_output_path(fsys, output_path, overwrite)
        log_2 == log_1 \o output_path_events(fsys, output_path, overwrite)
        checked == validate_concat_method_and_dim(method, dim)
    IN  IF input_files.err # "none"
        THEN Run(1, Outcome(input_files.err, <<>>, fsys, <<>>, <<>>, log_1), <<>>)
        ELSE IF validated.err # "none"
        THEN Run(1, Outcome(validated.err, <<>>, validated.fs, <<>>, <<>>, log_2), <<>>)
        ELSE IF checked.err # "none"
        THEN Run(1, Outcome(checked.err, <<>>, validated.fs, <<>>, <<>>, log_2), <<>>)
        ELSE LET history_json == collect_history(validated.fs, input_files.val)
                 log_3 == log_2 \o EventsAt("nc.Dataset", validated.fs, input_files.val)
                 outcome == concatenate(validated.fs, suffix, input_files.val,
                                        output_path, method, dim, sorting, overwrite,
                                        <<history_json>>, write_ok, trees_comparable)
             IN  Run(1, [outcome EXCEPT !.log = log_3 \o @], <<history_json>>)

\* the files given on the command line or to concatenate: granules with
\* and without records, one of them empty, and a file that is not netCDF
CliGranules ==
    {Input(".nc", WithHistory(GranuleA, <<HistoryRecord(101)>>)),
     Input(".nc", GranuleB),
     Input(".nc", WithHistory(GranuleD, <<HistoryRecord(102), HistoryRecord(103)>>)),
     Input(".nc", WithHistory(GranuleE, <<HistoryRecord(104)>>)),
     Input(".nc", Garbage)}

\* the argument is the list of the files, or a directory holding them, or
\* a text file listing them
InitCli ==
    /\ \E n \in 0..MaxPaths : \E inputs \in [1..n -> CliGranules] :
         \E container \in {"none", "directory", "text"} :
           \E output_content \in {Missing, GranuleC} :
             LET listed == [i \in 1..n |-> i]
                 last == IF container = "none" THEN n ELSE n + 1
             IN  /\ fs = [path \in 0..last |->
                            IF path = 0 THEN output_content
                            ELSE IF path <= n THEN inputs[path].file
                            ELSE IF container = "directory" THEN Directory(listed)
                            ELSE TextFile(listed)]
                 /\ path_suffix = [path \in 0..last |->
                            IF path = 0 THEN ".nc"
                            ELSE IF path <= n THEN inputs[path].suffix
                            ELSE IF container = "directory" THEN "" ELSE ".txt"]
                 /\ files_to_concat = IF container = "none" THEN listed ELSE <<n + 1>>
                 /\ output_file \in 0..n
                 /\ output_file # 0 => output_content = Missing
    /\ fs_at_call = fs
    /\ concat_method = "xarray-concat"
    /\ concat_dim \in {"", "step"}
    /\ sorting_variable = ""
    /\ overwrite_output_file \in BOOLEAN
    /\ history_to_append = <<>>
    /\ concat_result = NoCall
    /\ workable_stitchee = NoResult
    /\ workable_concatenator = NoResult
    /\ path_check = [function |-> "none", err |-> "not called", val |-> <<>>]
    /\ exit_status = <<>>
    /\ IdleCoord
    /\ IdleGroup
    /\ IdleEmpty

\* stitchee <input> -o <output_file> [--overwrite] --concat_dim <concat_dim>
RunConcatenate ==
    /\ concat_result.err = "not called"
    /\ exit_status = <<>>
    /\ \E write_ok, trees_comparable \in BOOLEAN :
         \E run \in {run_concatenate(fs, path_suffix, files_to_concat, output_file,
                                     concat_method, concat_dim, sorting_variable,
                                     overwrite_output_file, write_ok,
                                     trees_comparable)} :
             /\ \E open_handles \in OpenHandlesLeft(run.outcome) :
                   concat_result' = [err |-> run.outcome.err, val |-> run.outcome.val,
                                     opened |-> run.outcome.opened,
                                     detail |-> run.outcome.detail,
                                     log |-> run.outcome.log,
                                     open_handles |-> open_handles]
             /\ fs' = run.outcome.fs
             /\ history_to_append' = run.history
             /\ exit_status' = <<run.exit>>
    /\ UNCHANGED <<fs_at_call, path_suffix, files_to_concat, output_file,
                   concat_method, concat_dim, sorting_variable, overwrite_output_file,
                   workable_stitchee, workable_concatenator, path_check>>
    /\ UNCHANGED coordVars
    /\ UNCHANGED groupVars
    /\ UNCHANGED emptyVars

NextCli == RunConcatenate \/ Concatenate

SpecCli == InitCli /\ [][NextCli]_vars

\* the input files the command line resolves its argument to
CliInputFiles == validate_input_path(fs_at_call, path_suffix, files_to_concat).val

CliWorkableInputs ==
    SelectSeq(CliInputFiles, LAMBDA path : IsWorkable(fs_at_call[path]))

\* the command line ran, exited with status 0 and wrote the output
CliSucceeded ==
    /\ exit_status = <<0>>
    /\ concat_result.val = <<output_file>>

\* the output's history_json is the inputs' records, in input order, and
\* one new record of this run
HistoryIsInputsPlusOne ==
    /\ fs[output_file].history_json # <<>>
    /\ LET history == json_loads(fs[output_file].history_json[1])
           existing == GatherHistory(fs_at_call, CliInputFiles)
       IN  /\ Len(history) = Len(existing) + 1
           /\ SubSeq(history, 1, Len(existing)) = existing
           /\ history[Len(history)] = construct_history(CliInputFiles, CliInputFiles)

DirectCall == Called /\ exit_status = <<>>

\* the argument is one path, a directory or a text file listing paths
IsContainerArgument ==
    /\ Len(files_to_concat) = 1
    /\ fs_at_call[files_to_concat[1]].kind \in {"directory", "text"}

\* a file but for its history_json, which only the command line supplies
WithoutHistory(file) == [file EXCEPT !.history_json = <<>>]

\* the call ended as the command line can end for the same arguments: the
\* same error or none, the same path returned, the same output file
SameAsCommandLine ==
    \E write_ok, trees_comparable \in BOOLEAN :
        LET cli == run_concatenate(fs_at_call, path_suffix, files_to_concat,
                                   output_file, concat_method, concat_dim,
                                   sorting_variable, overwrite_output_file,
                                   write_ok, trees_comparable).outcome
        IN  /\ concat_result.err = cli.err
            /\ concat_result.val = cli.val
            /\ WithoutHistory(fs[output_file]) = WithoutHistory(cli.fs[output_file])

\* C20: concatenate called with a one-element list that names a directory,
\* or a text file listing one path per line, concatenates the files the
\* directory contains, or the files the text file lists, and gives the same
\* result as the command line gives for the same argument.
C20_ContainerArgumentAsCommandLine ==
    (DirectCall /\ IsContainerArgument) => SameAsCommandLine

\* a run, from the command line or by a call, with the overwrite flag and
\* a file of its own at the output path, that did not write an output
RunWithoutOutputOverExistingFile ==
    /\ Called
    /\ overwrite_output_file
    /\ fs_at_call[output_file].kind \notin {"missing", "directory"}
    /\ \A i \in 1..Len(CliInputFiles) : CliInputFiles[i] # output_file
    /\ ~ReturnedOutput

\* C30: with the overwrite flag set, a file that already exists at the
\* output path is removed only in a run that then writes a new output
\* there: a run that ends in a validation error, in a processing error or
\* in the no-workable-files outcome leaves the existing file in place and
\* unchanged.
C30_ExistingOutputKeptUnlessReplaced ==
    RunWithoutOutputOverExistingFile => fs[output_file] = fs_at_call[output_file]

(***************************************************************************)
(* concatenator/dimension_cleanup.py: remove_duplicate_dims on a flat      *)
(* dataset.  The dataset is the dict of its dimensions and the (ordered)   *)
(* dict of its variables; a variable has a name, a dtype, a dimension      *)
(* list, a _FillValue attribute or none, its other attributes and its      *)
(* data.  Names and attribute contents are strings of characters, so that  *)
(* str.replace works on them as Python's does.  No variable is scaled or   *)
(* packed, so the dtype of the data read from a variable is the dtype of   *)
(* the variable.                                                           *)
(***************************************************************************)
MaxRank == 3         \* longest dimension list of a variable

\* nc_dataset.variables[name]
nc_variable(ds, name) ==
    ds.variables[CHOOSE i \in 1..Len(ds.variables) : ds.variables[i].name = name]

\* nc_dataset.variables.keys() and nc_dataset.dimensions.keys()
variables_keys(ds) == {ds.variables[i].name : i \in 1..Len(ds.variables)}

dimensions_keys(ds) == {d.name : d \in ds.dimensions}

\* len(dimension)
dimension_length(ds, name) == (CHOOSE d \in ds.dimensions : d.name = name).size

\* var.shape
var_shape(ds, var) ==
    [i \in 1..Len(var.dimensions) |-> dimension_length(ds, var.dimensions[i])]

\* collections.Counter(dim_list)[item]
Counter(dim_list, item) == Cardinality({i \in 1..Len(dim_list) : dim_list[i] = item})

\* len(set(dim_list)) != len(dim_list)
has_duplicate(dim_list) == Cardinality(SeqToSet(dim_list)) # Len(dim_list)

\* the names of dup_vars, in the order of nc_dataset.variables
dup_var_names(ds) ==
    LET dups == SelectSeq(ds.variables, LAMBDA var : has_duplicate(var.dimensions))
    IN  [i \in 1..Len(dups) |-> dups[i].name]

\* [item for item, count in Counter(dim_list).items() if count > 1][0]:
\* a Counter lists its items in the order of their first occurrence
first_duplicated(dim_list) ==
    dim_list[CHOOSE i \in 1..Len(dim_list) :
                /\ Counter(dim_list, dim_list[i]) > 1
                /\ \A j \in 1..(i - 1) : Counter(dim_list, dim_list[j]) <= 1]

\* dim_dup + "_1"
with_suffix_1(name) == name \o <<"_", "1">>

get_attributes_minus_fillvalue_and_renamed_coords(original_var_name, new_var_name, original_dataset) ==
    {[name |-> a.name,
      contents |-> IF a.name = "coordinates"
                   THEN str_replace(a.contents, original_var_name, new_var_name)
                   ELSE a.contents]
        : a \in nc_variable(original_dataset, original_var_name).attrs}

\* nc_dataset.createDimension(name, size)
with_dimension(ds, name, size) ==
    [ds EXCEPT !.dimensions = @ \cup {[name |-> name, size |-> size]}]

\* del nc_dataset.variables[name]
without_variable(ds, name) ==
    [ds EXCEPT !.variables = SelectSeq(@, LAMBDA var : var.name # name)]

\* nc_dataset.createVariable(name, dtype, dimensions, fill_value=fill_value),
\* the attributes set with setncattr and the data assigned with [:]: the
\* variable is added at the end of the dict; assigning data whose shape is
\* not the variable's raises
with_variable(ds, name, dtype, dimensions, fill_value, attrs, data) ==
    LET var == [name |-> name, dtype |-> dtype, dimensions |-> dimensions,
                fill_value |-> fill_value, attrs |-> attrs, data |-> data]
        created == [ds EXCEPT !.variables = Append(@, [var EXCEPT !.data =
                        [shape |-> var_shape(ds, var), values |-> "unwritten"]])]
    IN  IF data.shape = var_shape(ds, var)
        THEN [err |-> "none", val |-> [ds EXCEPT !.variables = Append(@, var)]]
        ELSE [err |-> "ShapeMismatch", val |-> created]

\* lines 70 to 92: the clone of the duplicated dimension and of its
\* coordinate variable
with_clone(ds, dim_dup, dim_dup_new, dim_dup_length, fill_value) ==
    IF dim_dup_new \in dimensions_keys(ds)
    THEN [err |-> "none", val |-> ds]
    ELSE LET created == with_dimension(ds, dim_dup_new, dim_dup_length)
         IN  IF dim_dup \in variables_keys(ds)
             THEN with_variable(created, dim_dup_new, nc_variable(ds, dim_dup).dtype,
                                <<dim_dup_new>>, fill_value,
                                get_attributes_minus_fillvalue_and_renamed_coords(
                                    dim_dup, dim_dup_new, ds),
                                nc_variable(ds, dim_dup).data)
             ELSE [err |-> "none", val |-> created]

\* one pass of the loop over dup_vars (lines 31 to 106); dup_var._FillValue
\* raises AttributeError when the variable has no such attribute
rebuild_variable(ds, dup_var) ==
    LET dim_list == dup_var.dimensions
        dim_dup == first_duplicated(dim_list)
        dim_dup_length == var_shape(ds, dup_var)[CHOOSE i \in 1..Len(dim_list) :
                              /\ dim_list[i] = dim_dup
                              /\ \A j \in 1..(i - 1) : dim_list[j] # dim_dup]
        dim_dup_new == with_suffix_1(dim_dup)
        new_dim_list == AllButLast(dim_list) \o <<dim_dup_new>>
        attrs_contents == get_attributes_minus_fillvalue_and_renamed_coords(
                              dup_var.name, dim_dup_new, ds)
    IN  IF dup_var.fill_value = <<>>
        THEN [err |-> "AttributeError", val |-> ds]
        ELSE LET cloned == with_clone(ds, dim_dup, dim_dup_new, dim_dup_length,
                                      dup_var.fill_value)
             IN  IF cloned.err # "none" THEN cloned
                 ELSE with_variable(without_variable(cloned.val, dup_var.name),
                                    dup_var.name, dup_var.data.dtype, new_dim_list,
                                    dup_var.fill_value, attrs_contents, dup_var.data)

RECURSIVE rebuild_all(_, _, _)
\* the loop over dup_vars, which holds the variables as they were found
rebuild_all(ds, original, names) ==
    IF names = <<>> THEN [err |-> "none", val |-> ds]
    ELSE LET rebuilt == rebuild_variable(ds, nc_variable(original, Head(names)))
         IN  IF rebuilt.err # "none" THEN rebuilt
             ELSE rebuild_all(rebuilt.val, original, Tail(names))

remove_duplicate_dims(nc_dataset_flat) ==
    rebuild_all(nc_dataset_flat, nc_dataset_flat, dup_var_names(nc_dataset_flat))

(***************************************************************************)
(* The flat datasets explored: dimensions d (of size 2) and e, possibly a  *)
(* dimension d_1 already there, possibly the coordinate variable d, and    *)
(* one or two variables whose dimension lists are any lists of d and e.    *)
(***************************************************************************)
CleanupDimensions ==
    {{[name |-> <<"d">>, size |-> 2], [name |-> <<"e">>, size |-> e]} \cup extra :
        e \in {2, 3},
        extra \in {{}} \cup {{[name |-> <<"d", "_", "1">>, size |-> s]} : s \in {2, 3}}}

DimensionLists == UNION {[1..k -> {<<"d">>, <<"e">>}] : k \in 1..MaxRank}

\* the data of a variable with these dimensions
DataOf(dimensions, name, dtype, dimension_list) ==
    [dtype |-> dtype, values |-> name,
     shape |-> [i \in 1..Len(dimension_list) |->
                   (CHOOSE d \in dimensions : d.name = dimension_list[i]).size]]

CoordinateVariable(dimensions) ==
    [name |-> <<"d">>, dtype |-> "float64", dimensions |-> <<<<"d">>>>,
     fill_value |-> <<>>, attrs |-> {[name |-> "units", contents |-> <<"m">>]},
     data |-> DataOf(dimensions, <<"d">>, "float64", <<<<"d">>>>)]

DataVariables(dimensions, name, dtype) ==
    {[name |-> name, dtype |-> dtype, dimensions |-> dimension_list,
      fill_value |-> fill_value, attrs |-> attrs,
      data |-> DataOf(dimensions, name, dtype, dimension_list)] :
        dimension_list \in DimensionLists,
        fill_value \in {<<>>, <<9>>},
        attrs \in {{[name |-> "units", contents |-> <<"m">>]},
                   {[name |-> "units", contents |-> <<"m">>],
                    [name |-> "coordinates", contents |-> name \o <<" ", "d">>]}}}

\* the variables of a dataset: v alone, or v followed by w
CleanupVariableLists(dimensions) ==
    LET vs == DataVariables(dimensions, <<"v">>, "int32")
        ws == DataVariables(dimensions, <<"w">>, "float64")
    IN  {<<v>> : v \in vs} \cup (vs \X ws)

InitCleanup ==
    /\ \E dimensions \in CleanupDimensions :
        \E coordinate \in {<<>>, <<CoordinateVariable(dimensions)>>} :
            \E variables \in CleanupVariableLists(dimensions) :
                cleanup_input = [dimensions |-> dimensions,
                                 variables |-> coordinate \o variables]
    /\ cleanup_result = NoResult
    /\ nc_dataset = [groups |-> {}, variables |-> {}, dimensions |-> {}]
    /\ flat_dataset = [variables |-> {}, dimensions |-> {}, coord_vars |-> {}]
    /\ output_dataset = [groups |-> {}, variables |-> {}, dimensions |-> {}, err |-> "none"]
    /\ group_pc = "idle"
    /\ input_file = [groups |-> {}, variables |-> {}, dimensions |-> {}]
    /\ input_file_at_start = input_file
    /\ stitchee_runs = <<>>
    /\ IdleCoord
    /\ IdleEmpty
    /\ IdleConcat

RemoveDuplicateDims ==
    /\ cleanup_result.err = "not called"
    /\ cleanup_result' = remove_duplicate_dims(cleanup_input)
    /\ UNCHANGED <<nc_dataset, flat_dataset, output_dataset, group_pc,
                   input_file, input_file_at_start, stitchee_runs, cleanup_input>>
    /\ UNCHANGED coordVars
    /\ UNCHANGED emptyVars
    /\ UNCHANGED concatVars

NextCleanup == RemoveDuplicateDims

SpecCleanup == InitCleanup /\ [][NextCleanup]_vars

\* the variables of the input in which one dimension is listed twice and
\* no dimension more often
ListedTwice(var) ==
    /\ \E dim \in SeqToSet(var.dimensions) : Counter(var.dimensions, dim) = 2
    /\ Len(var.dimensions) = Cardinality(SeqToSet(var.dimensions)) + 1

CleanupReturned == cleanup_result.err = "none"

\* C21: after remove_duplicate_dims has returned, every variable that
\* listed a dimension D twice (at any two positions of its dimension list)
\* lists no dimension more than once; a dimension D_1 of D's size exists,
\* and whenever a coordinate variable D existed a variable D_1 with the
\* same data exists.
C21_NoDuplicateDimensionLeft ==
    CleanupReturned =>
        \A i \in 1..Len(cleanup_input.variables) :
            LET before == cleanup_input.variables[i]
                dim_dup == first_duplicated(before.dimensions)
                after == nc_variable(cleanup_result.val, before.name)
            IN  ListedTwice(before) =>
                    /\ ~has_duplicate(after.dimensions)
                    /\ with_suffix_1(dim_dup) \in dimensions_keys(cleanup_result.val)
                    /\ dimension_length(cleanup_result.val, with_suffix_1(dim_dup))
                           = dimension_length(cleanup_input, dim_dup)
                    /\ dim_dup \in variables_keys(cleanup_input) =>
                           /\ with_suffix_1(dim_dup) \in variables_keys(cleanup_result.val)
                           /\ nc_variable(cleanup_result.val, with_suffix_1(dim_dup)).data
                                  = nc_variable(cleanup_input, dim_dup).data

\* the entries at which two dimension lists of the same length differ
ChangedEntries(before, after) == {i \in 1..Len(before) : before[i] # after[i]}

\* C22: remove_duplicate_dims rebuilds a variable with a duplicated
\* dimension whether or not it has a fill value, and changes nothing of it
\* but one entry of its dimension list: name, dtype, fill value, attributes,
\* data and the other entries are as before; a variable without a
\* duplicated dimension is left untouched.
C22_OnlyOneDimensionEntryChanges ==
    /\ cleanup_result.err # "AttributeError"
    /\ CleanupReturned =>
        \A i \in 1..Len(cleanup_input.variables) :
            LET before == cleanup_input.variables[i]
                after == nc_variable(cleanup_result.val, before.name)
            IN  /\ before.name \in variables_keys(cleanup_result.val)
                /\ IF has_duplicate(before.dimensions)
                   THEN /\ [after EXCEPT !.dimensions = before.dimensions] = before
                        /\ Len(after.dimensions) = Len(before.dimensions)
                        /\ Cardinality(ChangedEntries(before.dimensions,
                                                      after.dimensions)) = 1
                   ELSE after = before

====
